---------------------------- MODULE Spec2Model ----------------------------
(***************************************************************************)
(* Static inference over syntax trees: mutual exclusivity of statements,  *)
(* statement filtering for name lookup, call-argument binding and the     *)
(* lazy inference protocol (src/astroid/node_classes.py, src/inference.py)*)
(***************************************************************************)
EXTENDS Integers, Sequences, FiniteSets, TLC

(***************************************************************************)
(* Node tables.  A source unit is a sequence of node records; a node's id  *)
(* is its index, ids follow source order, par = 0 stands for parent None,  *)
(* fld is the parent's field (_astroid_fields) holding the node.           *)
(***************************************************************************)
N(k, p, f, l, nm, v) ==
  [kind |-> k, par |-> p, fld |-> f, line |-> l, name |-> nm, val |-> v]

(* SelfRef:
     x = x
     x
   nodes: 1=Module, 2=Assign, 3=AssignName(x), 4=Name(x), 5=Expr, 6=Name(x) *)
SelfRef ==
  << N("Module", 0, "", 0, "", 0),
     N("Assign", 1, "body", 1, "", 0),
     N("AssignName", 2, "targets", 1, "x", 0),
     N("Name", 2, "value", 1, "x", 0),
     N("Expr", 1, "body", 2, "", 0),
     N("Name", 5, "value", 2, "x", 0) >>

(* MutualRef:
     a = b
     b = a
     a
   nodes: 1=Module, 2=Assign, 3=AssignName(a), 4=Name(b), 5=Assign, 6=AssignName(b), 7=Name(a), 8=Expr, 9=Name(a) *)
MutualRef ==
  << N("Module", 0, "", 0, "", 0),
     N("Assign", 1, "body", 1, "", 0),
     N("AssignName", 2, "targets", 1, "a", 0),
     N("Name", 2, "value", 1, "b", 0),
     N("Assign", 1, "body", 2, "", 0),
     N("AssignName", 5, "targets", 2, "b", 0),
     N("Name", 5, "value", 2, "a", 0),
     N("Expr", 1, "body", 3, "", 0),
     N("Name", 8, "value", 3, "a", 0) >>

(* IfElse:
     if c:
         x = 1
     else:
         x = 2
     x
   nodes: 1=Module, 2=If, 3=Name(c), 4=Assign, 5=AssignName(x), 6=Const, 7=Assign, 8=AssignName(x), 9=Const, 10=Expr, 11=Name(x) *)
IfElse ==
  << N("Module", 0, "", 0, "", 0),
     N("If", 1, "body", 1, "", 0),
     N("Name", 2, "test", 1, "c", 0),
     N("Assign", 2, "body", 2, "", 0),
     N("AssignName", 4, "targets", 2, "x", 0),
     N("Const", 4, "value", 2, "", 1),
     N("Assign", 2, "orelse", 4, "", 0),
     N("AssignName", 7, "targets", 4, "x", 0),
     N("Const", 7, "value", 4, "", 2),
     N("Expr", 1, "body", 5, "", 0),
     N("Name", 10, "value", 5, "x", 0) >>

(* Straight:
     x = 1
     x = 2
     x
   nodes: 1=Module, 2=Assign, 3=AssignName(x), 4=Const, 5=Assign, 6=AssignName(x), 7=Const, 8=Expr, 9=Name(x) *)
Straight ==
  << N("Module", 0, "", 0, "", 0),
     N("Assign", 1, "body", 1, "", 0),
     N("AssignName", 2, "targets", 1, "x", 0),
     N("Const", 2, "value", 1, "", 1),
     N("Assign", 1, "body", 2, "", 0),
     N("AssignName", 5, "targets", 2, "x", 0),
     N("Const", 5, "value", 2, "", 2),
     N("Expr", 1, "body", 3, "", 0),
     N("Name", 8, "value", 3, "x", 0) >>

(* TryElse:
     try:
         risky()
     except ValueError:
         x = 1
     else:
         x = 2
     x
   nodes: 1=Module, 2=TryExcept, 3=Expr, 4=Call, 5=Name(risky), 6=ExceptHandler, 7=Name(ValueError), 8=Assign, 9=AssignName(x), 10=Const, 11=Assign, 12=AssignName(x), 13=Const, 14=Expr, 15=Name(x) *)
TryElse ==
  << N("Module", 0, "", 0, "", 0),
     N("TryExcept", 1, "body", 1, "", 0),
     N("Expr", 2, "body", 2, "", 0),
     N("Call", 3, "value", 2, "", 0),
     N("Name", 4, "func", 2, "risky", 0),
     N("ExceptHandler", 2, "handlers", 3, "", 0),
     N("Name", 6, "type", 3, "ValueError", 0),
     N("Assign", 6, "body", 4, "", 0),
     N("AssignName", 8, "targets", 4, "x", 0),
     N("Const", 8, "value", 4, "", 1),
     N("Assign", 2, "orelse", 6, "", 0),
     N("AssignName", 11, "targets", 6, "x", 0),
     N("Const", 11, "value", 6, "", 2),
     N("Expr", 1, "body", 7, "", 0),
     N("Name", 14, "value", 7, "x", 0) >>

(* Branches:
     x = 0
     if c:
         x = 1
         for x in y:
             pass
         x = 2
     elif d:
         x = 3
     else:
         try:
             x = 4
         except ValueError as x:
             x = 5
         except (KeyError, TypeError):
             x = 6
         except:
             x = 7
         else:
             x = 8
     x
   nodes: 1=Module, 2=Assign, 3=AssignName(x), 4=Const, 5=If, 6=Name(c), 7=Assign, 8=AssignName(x), 9=Const, 10=For, 11=AssignName(x), 12=Name(y), 13=Pass, 14=Assign, 15=AssignName(x), 16=Const, 17=If, 18=Name(d), 19=Assign, 20=AssignName(x), 21=Const, 22=TryExcept, 23=Assign, 24=AssignName(x), 25=Const, 26=ExceptHandler, 27=Name(ValueError), 28=AssignName(x), 29=Assign, 30=AssignName(x), 31=Const, 32=ExceptHandler, 33=Tuple, 34=Name(KeyError), 35=Name(TypeError), 36=Assign, 37=AssignName(x), 38=Const, 39=ExceptHandler, 40=Assign, 41=AssignName(x), 42=Const, 43=Assign, 44=AssignName(x), 45=Const, 46=Expr, 47=Name(x) *)
Branches ==
  << N("Module", 0, "", 0, "", 0),
     N("Assign", 1, "body", 1, "", 0),
     N("AssignName", 2, "targets", 1, "x", 0),
     N("Const", 2, "value", 1, "", 0),
     N("If", 1, "body", 2, "", 0),
     N("Name", 5, "test", 2, "c", 0),
     N("Assign", 5, "body", 3, "", 0),
     N("AssignName", 7, "targets", 3, "x", 0),
     N("Const", 7, "value", 3, "", 1),
     N("For", 5, "body", 4, "", 0),
     N("AssignName", 10, "target", 4, "x", 0),
     N("Name", 10, "iter", 4, "y", 0),
     N("Pass", 10, "body", 5, "", 0),
     N("Assign", 5, "body", 6, "", 0),
     N("AssignName", 14, "targets", 6, "x", 0),
     N("Const", 14, "value", 6, "", 2),
     N("If", 5, "orelse", 7, "", 0),
     N("Name", 17, "test", 7, "d", 0),
     N("Assign", 17, "body", 8, "", 0),
     N("AssignName", 19, "targets", 8, "x", 0),
     N("Const", 19, "value", 8, "", 3),
     N("TryExcept", 17, "orelse", 10, "", 0),
     N("Assign", 22, "body", 11, "", 0),
     N("AssignName", 23, "targets", 11, "x", 0),
     N("Const", 23, "value", 11, "", 4),
     N("ExceptHandler", 22, "handlers", 12, "", 0),
     N("Name", 26, "type", 12, "ValueError", 0),
     N("AssignName", 26, "name", 12, "x", 0),
     N("Assign", 26, "body", 13, "", 0),
     N("AssignName", 29, "targets", 13, "x", 0),
     N("Const", 29, "value", 13, "", 5),
     N("ExceptHandler", 22, "handlers", 14, "", 0),
     N("Tuple", 32, "type", 14, "", 0),
     N("Name", 33, "elts", 14, "KeyError", 0),
     N("Name", 33, "elts", 14, "TypeError", 0),
     N("Assign", 32, "body", 15, "", 0),
     N("AssignName", 36, "targets", 15, "x", 0),
     N("Const", 36, "value", 15, "", 6),
     N("ExceptHandler", 22, "handlers", 16, "", 0),
     N("Assign", 39, "body", 17, "", 0),
     N("AssignName", 40, "targets", 17, "x", 0),
     N("Const", 40, "value", 17, "", 7),
     N("Assign", 22, "orelse", 19, "", 0),
     N("AssignName", 43, "targets", 19, "x", 0),
     N("Const", 43, "value", 19, "", 8),
     N("Expr", 1, "body", 20, "", 0),
     N("Name", 46, "value", 20, "x", 0) >>

(* Bases:
     B = 1
     class B(B):
         pass
     B
   nodes: 1=Module, 2=Assign, 3=AssignName(B), 4=Const, 5=ClassDef(B), 6=Name(B), 7=Pass, 8=Expr, 9=Name(B) *)
Bases ==
  << N("Module", 0, "", 0, "", 0),
     N("Assign", 1, "body", 1, "", 0),
     N("AssignName", 2, "targets", 1, "B", 0),
     N("Const", 2, "value", 1, "", 1),
     N("ClassDef", 1, "body", 2, "B", 0),
     N("Name", 5, "bases", 2, "B", 0),
     N("Pass", 5, "body", 3, "", 0),
     N("Expr", 1, "body", 4, "", 0),
     N("Name", 8, "value", 4, "B", 0) >>

(* Method:
     class A:
         def m(self, y=5):
             return y
         def s(self):
             return self
     A().m()
     A().m(10)
     A().m(y=10)
     A().s()
     A().m(1, 3, y=10)
   nodes: 1=Module, 2=ClassDef(A), 3=FunctionDef(m), 4=Arguments, 5=AssignName(self), 6=AssignName(y), 7=Const, 8=Return, 9=Name(y), 10=FunctionDef(s), 11=Arguments, 12=AssignName(self), 13=Return, 14=Name(self), 15=Expr, 16=Call, 17=Attribute(m), 18=Call, 19=Name(A), 20=Expr, 21=Call, 22=Attribute(m), 23=Call, 24=Name(A), 25=Const, 26=Expr, 27=Call, 28=Attribute(m), 29=Call, 30=Name(A), 31=Keyword(y), 32=Const, 33=Expr, 34=Call, 35=Attribute(s), 36=Call, 37=Name(A), 38=Expr, 39=Call, 40=Attribute(m), 41=Call, 42=Name(A), 43=Const, 44=Const, 45=Keyword(y), 46=Const *)
Method ==
  << N("Module", 0, "", 0, "", 0),
     N("ClassDef", 1, "body", 1, "A", 0),
     N("FunctionDef", 2, "body", 2, "m", 0),
     N("Arguments", 3, "args", 2, "", 0),
     N("AssignName", 4, "args", 2, "self", 0),
     N("AssignName", 4, "args", 2, "y", 0),
     N("Const", 4, "defaults", 2, "", 5),
     N("Return", 3, "body", 3, "", 0),
     N("Name", 8, "value", 3, "y", 0),
     N("FunctionDef", 2, "body", 4, "s", 0),
     N("Arguments", 10, "args", 4, "", 0),
     N("AssignName", 11, "args", 4, "self", 0),
     N("Return", 10, "body", 5, "", 0),
     N("Name", 13, "value", 5, "self", 0),
     N("Expr", 1, "body", 6, "", 0),
     N("Call", 15, "value", 6, "", 0),
     N("Attribute", 16, "func", 6, "m", 0),
     N("Call", 17, "expr", 6, "", 0),
     N("Name", 18, "func", 6, "A", 0),
     N("Expr", 1, "body", 7, "", 0),
     N("Call", 20, "value", 7, "", 0),
     N("Attribute", 21, "func", 7, "m", 0),
     N("Call", 22, "expr", 7, "", 0),
     N("Name", 23, "func", 7, "A", 0),
     N("Const", 21, "args", 7, "", 10),
     N("Expr", 1, "body", 8, "", 0),
     N("Call", 26, "value", 8, "", 0),
     N("Attribute", 27, "func", 8, "m", 0),
     N("Call", 28, "expr", 8, "", 0),
     N("Name", 29, "func", 8, "A", 0),
     N("Keyword", 27, "args", 8, "y", 0),
     N("Const", 31, "value", 8, "", 10),
     N("Expr", 1, "body", 9, "", 0),
     N("Call", 33, "value", 9, "", 0),
     N("Attribute", 34, "func", 9, "s", 0),
     N("Call", 35, "expr", 9, "", 0),
     N("Name", 36, "func", 9, "A", 0),
     N("Expr", 1, "body", 10, "", 0),
     N("Call", 38, "value", 10, "", 0),
     N("Attribute", 39, "func", 10, "m", 0),
     N("Call", 40, "expr", 10, "", 0),
     N("Name", 41, "func", 10, "A", 0),
     N("Const", 39, "args", 10, "", 1),
     N("Const", 39, "args", 10, "", 3),
     N("Keyword", 39, "args", 10, "y", 0),
     N("Const", 45, "value", 10, "", 10) >>

(* Required:
     def f(a, b=2):
         return a
     f()
     f(b=1)
   nodes: 1=Module, 2=FunctionDef(f), 3=Arguments, 4=AssignName(a), 5=AssignName(b), 6=Const, 7=Return, 8=Name(a), 9=Expr, 10=Call, 11=Name(f), 12=Expr, 13=Call, 14=Name(f), 15=Keyword(b), 16=Const *)
Required ==
  << N("Module", 0, "", 0, "", 0),
     N("FunctionDef", 1, "body", 1, "f", 0),
     N("Arguments", 2, "args", 1, "", 0),
     N("AssignName", 3, "args", 1, "a", 0),
     N("AssignName", 3, "args", 1, "b", 0),
     N("Const", 3, "defaults", 1, "", 2),
     N("Return", 2, "body", 2, "", 0),
     N("Name", 7, "value", 2, "a", 0),
     N("Expr", 1, "body", 3, "", 0),
     N("Call", 9, "value", 3, "", 0),
     N("Name", 10, "func", 3, "f", 0),
     N("Expr", 1, "body", 4, "", 0),
     N("Call", 12, "value", 4, "", 0),
     N("Name", 13, "func", 4, "f", 0),
     N("Keyword", 13, "args", 4, "b", 0),
     N("Const", 15, "value", 4, "", 1) >>

(* InitFirst:
     class A:
         def __init__(self):
             self.x = 1
         def reset(self):
             self.x = 2
             self.y = 3
     A.z = 4
   nodes: 1=Module, 2=ClassDef(A), 3=FunctionDef(__init__), 4=Arguments, 5=AssignName(self), 6=Assign, 7=AssignAttr(x), 8=Name(self), 9=Const, 10=FunctionDef(reset), 11=Arguments, 12=AssignName(self), 13=Assign, 14=AssignAttr(x), 15=Name(self), 16=Const, 17=Assign, 18=AssignAttr(y), 19=Name(self), 20=Const, 21=Assign, 22=AssignAttr(z), 23=Name(A), 24=Const *)
InitFirst ==
  << N("Module", 0, "", 0, "", 0),
     N("ClassDef", 1, "body", 1, "A", 0),
     N("FunctionDef", 2, "body", 2, "__init__", 0),
     N("Arguments", 3, "args", 2, "", 0),
     N("AssignName", 4, "args", 2, "self", 0),
     N("Assign", 3, "body", 3, "", 0),
     N("AssignAttr", 6, "targets", 3, "x", 0),
     N("Name", 7, "expr", 3, "self", 0),
     N("Const", 6, "value", 3, "", 1),
     N("FunctionDef", 2, "body", 4, "reset", 0),
     N("Arguments", 10, "args", 4, "", 0),
     N("AssignName", 11, "args", 4, "self", 0),
     N("Assign", 10, "body", 5, "", 0),
     N("AssignAttr", 13, "targets", 5, "x", 0),
     N("Name", 14, "expr", 5, "self", 0),
     N("Const", 13, "value", 5, "", 2),
     N("Assign", 10, "body", 6, "", 0),
     N("AssignAttr", 17, "targets", 6, "y", 0),
     N("Name", 18, "expr", 6, "self", 0),
     N("Const", 17, "value", 6, "", 3),
     N("Assign", 1, "body", 7, "", 0),
     N("AssignAttr", 21, "targets", 7, "z", 0),
     N("Name", 22, "expr", 7, "A", 0),
     N("Const", 21, "value", 7, "", 4) >>

(* InitLast:
     class A:
         def reset(self):
             self.x = 2
         def __init__(self):
             self.x = 1
             self.x = 5
     A.z = 4
     A.z = 6
   nodes: 1=Module, 2=ClassDef(A), 3=FunctionDef(reset), 4=Arguments, 5=AssignName(self), 6=Assign, 7=AssignAttr(x), 8=Name(self), 9=Const, 10=FunctionDef(__init__), 11=Arguments, 12=AssignName(self), 13=Assign, 14=AssignAttr(x), 15=Name(self), 16=Const, 17=Assign, 18=AssignAttr(x), 19=Name(self), 20=Const, 21=Assign, 22=AssignAttr(z), 23=Name(A), 24=Const, 25=Assign, 26=AssignAttr(z), 27=Name(A), 28=Const *)
InitLast ==
  << N("Module", 0, "", 0, "", 0),
     N("ClassDef", 1, "body", 1, "A", 0),
     N("FunctionDef", 2, "body", 2, "reset", 0),
     N("Arguments", 3, "args", 2, "", 0),
     N("AssignName", 4, "args", 2, "self", 0),
     N("Assign", 3, "body", 3, "", 0),
     N("AssignAttr", 6, "targets", 3, "x", 0),
     N("Name", 7, "expr", 3, "self", 0),
     N("Const", 6, "value", 3, "", 2),
     N("FunctionDef", 2, "body", 4, "__init__", 0),
     N("Arguments", 10, "args", 4, "", 0),
     N("AssignName", 11, "args", 4, "self", 0),
     N("Assign", 10, "body", 5, "", 0),
     N("AssignAttr", 13, "targets", 5, "x", 0),
     N("Name", 14, "expr", 5, "self", 0),
     N("Const", 13, "value", 5, "", 1),
     N("Assign", 10, "body", 6, "", 0),
     N("AssignAttr", 17, "targets", 6, "x", 0),
     N("Name", 18, "expr", 6, "self", 0),
     N("Const", 17, "value", 6, "", 5),
     N("Assign", 1, "body", 7, "", 0),
     N("AssignAttr", 21, "targets", 7, "z", 0),
     N("Name", 22, "expr", 7, "A", 0),
     N("Const", 21, "value", 7, "", 4),
     N("Assign", 1, "body", 8, "", 0),
     N("AssignAttr", 25, "targets", 8, "z", 0),
     N("Name", 26, "expr", 8, "A", 0),
     N("Const", 25, "value", 8, "", 6) >>

(* TwoClasses:
     class A:
         def __init__(self):
             self.x = 1
     class B:
         def __init__(self, other):
             self.x = 2
             other.x = 3
         def set(self):
             self.x = 4
             B.x = 5
     def f():
         pass
     f.x = 6
   nodes: 1=Module, 2=ClassDef(A), 3=FunctionDef(__init__), 4=Arguments, 5=AssignName(self), 6=Assign, 7=AssignAttr(x), 8=Name(self), 9=Const, 10=ClassDef(B), 11=FunctionDef(__init__), 12=Arguments, 13=AssignName(self), 14=AssignName(other), 15=Assign, 16=AssignAttr(x), 17=Name(self), 18=Const, 19=Assign, 20=AssignAttr(x), 21=Name(other), 22=Const, 23=FunctionDef(set), 24=Arguments, 25=AssignName(self), 26=Assign, 27=AssignAttr(x), 28=Name(self), 29=Const, 30=Assign, 31=AssignAttr(x), 32=Name(B), 33=Const, 34=FunctionDef(f), 35=Arguments, 36=Pass, 37=Assign, 38=AssignAttr(x), 39=Name(f), 40=Const *)
TwoClasses ==
  << N("Module", 0, "", 0, "", 0),
     N("ClassDef", 1, "body", 1, "A", 0),
     N("FunctionDef", 2, "body", 2, "__init__", 0),
     N("Arguments", 3, "args", 2, "", 0),
     N("AssignName", 4, "args", 2, "self", 0),
     N("Assign", 3, "body", 3, "", 0),
     N("AssignAttr", 6, "targets", 3, "x", 0),
     N("Name", 7, "expr", 3, "self", 0),
     N("Const", 6, "value", 3, "", 1),
     N("ClassDef", 1, "body", 4, "B", 0),
     N("FunctionDef", 10, "body", 5, "__init__", 0),
     N("Arguments", 11, "args", 5, "", 0),
     N("AssignName", 12, "args", 5, "self", 0),
     N("AssignName", 12, "args", 5, "other", 0),
     N("Assign", 11, "body", 6, "", 0),
     N("AssignAttr", 15, "targets", 6, "x", 0),
     N("Name", 16, "expr", 6, "self", 0),
     N("Const", 15, "value", 6, "", 2),
     N("Assign", 11, "body", 7, "", 0),
     N("AssignAttr", 19, "targets", 7, "x", 0),
     N("Name", 20, "expr", 7, "other", 0),
     N("Const", 19, "value", 7, "", 3),
     N("FunctionDef", 10, "body", 8, "set", 0),
     N("Arguments", 23, "args", 8, "", 0),
     N("AssignName", 24, "args", 8, "self", 0),
     N("Assign", 23, "body", 9, "", 0),
     N("AssignAttr", 26, "targets", 9, "x", 0),
     N("Name", 27, "expr", 9, "self", 0),
     N("Const", 26, "value", 9, "", 4),
     N("Assign", 23, "body", 10, "", 0),
     N("AssignAttr", 30, "targets", 10, "x", 0),
     N("Name", 31, "expr", 10, "B", 0),
     N("Const", 30, "value", 10, "", 5),
     N("FunctionDef", 1, "body", 11, "f", 0),
     N("Arguments", 34, "args", 11, "", 0),
     N("Pass", 34, "body", 12, "", 0),
     N("Assign", 1, "body", 13, "", 0),
     N("AssignAttr", 37, "targets", 13, "x", 0),
     N("Name", 38, "expr", 13, "f", 0),
     N("Const", 37, "value", 13, "", 6) >>

(* UnaryOps:
     class P:
         def __neg__(self):
             return self
     class Q:
         pass
     -"a"
     ~P()
     -P()
     -Q()
     not Q()
     -1
   nodes: 1=Module, 2=ClassDef(P), 3=FunctionDef(__neg__), 4=Arguments, 5=AssignName(self), 6=Return, 7=Name(self), 8=ClassDef(Q), 9=Pass, 10=Expr, 11=UnaryOp(-), 12=Const(str), 13=Expr, 14=UnaryOp(~), 15=Call, 16=Name(P), 17=Expr, 18=UnaryOp(-), 19=Call, 20=Name(P), 21=Expr, 22=UnaryOp(-), 23=Call, 24=Name(Q), 25=Expr, 26=UnaryOp(not), 27=Call, 28=Name(Q), 29=Expr, 30=UnaryOp(-), 31=Const *)
UnaryOps ==
  << N("Module", 0, "", 0, "", 0),
     N("ClassDef", 1, "body", 1, "P", 0),
     N("FunctionDef", 2, "body", 2, "__neg__", 0),
     N("Arguments", 3, "args", 2, "", 0),
     N("AssignName", 4, "args", 2, "self", 0),
     N("Return", 3, "body", 3, "", 0),
     N("Name", 6, "value", 3, "self", 0),
     N("ClassDef", 1, "body", 4, "Q", 0),
     N("Pass", 8, "body", 5, "", 0),
     N("Expr", 1, "body", 6, "", 0),
     N("UnaryOp", 10, "value", 6, "-", 0),
     N("Const", 11, "operand", 6, "str", 1),
     N("Expr", 1, "body", 7, "", 0),
     N("UnaryOp", 13, "value", 7, "~", 0),
     N("Call", 14, "operand", 7, "", 0),
     N("Name", 15, "func", 7, "P", 0),
     N("Expr", 1, "body", 8, "", 0),
     N("UnaryOp", 17, "value", 8, "-", 0),
     N("Call", 18, "operand", 8, "", 0),
     N("Name", 19, "func", 8, "P", 0),
     N("Expr", 1, "body", 9, "", 0),
     N("UnaryOp", 21, "value", 9, "-", 0),
     N("Call", 22, "operand", 9, "", 0),
     N("Name", 23, "func", 9, "Q", 0),
     N("Expr", 1, "body", 10, "", 0),
     N("UnaryOp", 25, "value", 10, "not", 0),
     N("Call", 26, "operand", 10, "", 0),
     N("Name", 27, "func", 10, "Q", 0),
     N("Expr", 1, "body", 11, "", 0),
     N("UnaryOp", 29, "value", 11, "-", 0),
     N("Const", 30, "operand", 11, "", 1) >>

(* BinOps:
     class P:
         def __add__(self, other):
             return self
     class Q:
         pass
     P() + 1
     Q() + 1
     1 + 2
     1 + "a"
     Q() + P()
   nodes: 1=Module, 2=ClassDef(P), 3=FunctionDef(__add__), 4=Arguments, 5=AssignName(self), 6=AssignName(other), 7=Return, 8=Name(self), 9=ClassDef(Q), 10=Pass, 11=Expr, 12=BinOp(+), 13=Call, 14=Name(P), 15=Const, 16=Expr, 17=BinOp(+), 18=Call, 19=Name(Q), 20=Const, 21=Expr, 22=BinOp(+), 23=Const, 24=Const, 25=Expr, 26=BinOp(+), 27=Const, 28=Const(str), 29=Expr, 30=BinOp(+), 31=Call, 32=Name(Q), 33=Call, 34=Name(P) *)
BinOps ==
  << N("Module", 0, "", 0, "", 0),
     N("ClassDef", 1, "body", 1, "P", 0),
     N("FunctionDef", 2, "body", 2, "__add__", 0),
     N("Arguments", 3, "args", 2, "", 0),
     N("AssignName", 4, "args", 2, "self", 0),
     N("AssignName", 4, "args", 2, "other", 0),
     N("Return", 3, "body", 3, "", 0),
     N("Name", 7, "value", 3, "self", 0),
     N("ClassDef", 1, "body", 4, "Q", 0),
     N("Pass", 9, "body", 5, "", 0),
     N("Expr", 1, "body", 6, "", 0),
     N("BinOp", 11, "value", 6, "+", 0),
     N("Call", 12, "left", 6, "", 0),
     N("Name", 13, "func", 6, "P", 0),
     N("Const", 12, "right", 6, "", 1),
     N("Expr", 1, "body", 7, "", 0),
     N("BinOp", 16, "value", 7, "+", 0),
     N("Call", 17, "left", 7, "", 0),
     N("Name", 18, "func", 7, "Q", 0),
     N("Const", 17, "right", 7, "", 1),
     N("Expr", 1, "body", 8, "", 0),
     N("BinOp", 21, "value", 8, "+", 0),
     N("Const", 22, "left", 8, "", 1),
     N("Const", 22, "right", 8, "", 2),
     N("Expr", 1, "body", 9, "", 0),
     N("BinOp", 25, "value", 9, "+", 0),
     N("Const", 26, "left", 9, "", 1),
     N("Const", 26, "right", 9, "str", 1),
     N("Expr", 1, "body", 10, "", 0),
     N("BinOp", 29, "value", 10, "+", 0),
     N("Call", 30, "left", 10, "", 0),
     N("Name", 31, "func", 10, "Q", 0),
     N("Call", 30, "right", 10, "", 0),
     N("Name", 33, "func", 10, "P", 0) >>

(* ClassFirst:
     class A(B):
         pass
     B = 1
   nodes: 1=Module, 2=ClassDef(A), 3=Name(B), 4=Pass, 5=Assign, 6=AssignName(B), 7=Const *)
ClassFirst ==
  << N("Module", 0, "", 0, "", 0),
     N("ClassDef", 1, "body", 1, "A", 0),
     N("Name", 2, "bases", 1, "B", 0),
     N("Pass", 2, "body", 2, "", 0),
     N("Assign", 1, "body", 3, "", 0),
     N("AssignName", 5, "targets", 3, "B", 0),
     N("Const", 5, "value", 3, "", 1) >>

(* BasesLater:
     B = 1
     class A(B):
         pass
     B = 2
   nodes: 1=Module, 2=Assign, 3=AssignName(B), 4=Const, 5=ClassDef(A), 6=Name(B), 7=Pass, 8=Assign, 9=AssignName(B), 10=Const *)
BasesLater ==
  << N("Module", 0, "", 0, "", 0),
     N("Assign", 1, "body", 1, "", 0),
     N("AssignName", 2, "targets", 1, "B", 0),
     N("Const", 2, "value", 1, "", 1),
     N("ClassDef", 1, "body", 2, "A", 0),
     N("Name", 5, "bases", 2, "B", 0),
     N("Pass", 5, "body", 3, "", 0),
     N("Assign", 1, "body", 4, "", 0),
     N("AssignName", 8, "targets", 4, "B", 0),
     N("Const", 8, "value", 4, "", 2) >>

(* SelfBase:
     class B(B):
         pass
     B = 2
   nodes: 1=Module, 2=ClassDef(B), 3=Name(B), 4=Pass, 5=Assign, 6=AssignName(B), 7=Const *)
SelfBase ==
  << N("Module", 0, "", 0, "", 0),
     N("ClassDef", 1, "body", 1, "B", 0),
     N("Name", 2, "bases", 1, "B", 0),
     N("Pass", 2, "body", 2, "", 0),
     N("Assign", 1, "body", 3, "", 0),
     N("AssignName", 5, "targets", 3, "B", 0),
     N("Const", 5, "value", 3, "", 2) >>

(* DelStraight:
     x = 1
     del x
     x
   nodes: 1=Module, 2=Assign, 3=AssignName(x), 4=Const, 5=Delete, 6=DelName(x), 7=Expr, 8=Name(x) *)
DelStraight ==
  << N("Module", 0, "", 0, "", 0),
     N("Assign", 1, "body", 1, "", 0),
     N("AssignName", 2, "targets", 1, "x", 0),
     N("Const", 2, "value", 1, "", 1),
     N("Delete", 1, "body", 2, "", 0),
     N("DelName", 5, "targets", 2, "x", 0),
     N("Expr", 1, "body", 3, "", 0),
     N("Name", 7, "value", 3, "x", 0) >>

(* DelBranch:
     x = 1
     if c:
         del x
     x
   nodes: 1=Module, 2=Assign, 3=AssignName(x), 4=Const, 5=If, 6=Name(c), 7=Delete, 8=DelName(x), 9=Expr, 10=Name(x) *)
DelBranch ==
  << N("Module", 0, "", 0, "", 0),
     N("Assign", 1, "body", 1, "", 0),
     N("AssignName", 2, "targets", 1, "x", 0),
     N("Const", 2, "value", 1, "", 1),
     N("If", 1, "body", 2, "", 0),
     N("Name", 5, "test", 2, "c", 0),
     N("Delete", 5, "body", 3, "", 0),
     N("DelName", 7, "targets", 3, "x", 0),
     N("Expr", 1, "body", 4, "", 0),
     N("Name", 9, "value", 4, "x", 0) >>

(* ForElse:
     x = 0
     for x in x:
         x
     else:
         x
     x
   nodes: 1=Module, 2=Assign, 3=AssignName(x), 4=Const, 5=For, 6=AssignName(x), 7=Name(x), 8=Expr, 9=Name(x), 10=Expr, 11=Name(x), 12=Expr, 13=Name(x) *)
ForElse ==
  << N("Module", 0, "", 0, "", 0),
     N("Assign", 1, "body", 1, "", 0),
     N("AssignName", 2, "targets", 1, "x", 0),
     N("Const", 2, "value", 1, "", 0),
     N("For", 1, "body", 2, "", 0),
     N("AssignName", 5, "target", 2, "x", 0),
     N("Name", 5, "iter", 2, "x", 0),
     N("Expr", 5, "body", 3, "", 0),
     N("Name", 8, "value", 3, "x", 0),
     N("Expr", 5, "orelse", 5, "", 0),
     N("Name", 10, "value", 5, "x", 0),
     N("Expr", 1, "body", 6, "", 0),
     N("Name", 12, "value", 6, "x", 0) >>

(* ElseUse:
     x = 0
     if c:
         x = 1
     else:
         x
   nodes: 1=Module, 2=Assign, 3=AssignName(x), 4=Const, 5=If, 6=Name(c), 7=Assign, 8=AssignName(x), 9=Const, 10=Expr, 11=Name(x) *)
ElseUse ==
  << N("Module", 0, "", 0, "", 0),
     N("Assign", 1, "body", 1, "", 0),
     N("AssignName", 2, "targets", 1, "x", 0),
     N("Const", 2, "value", 1, "", 0),
     N("If", 1, "body", 2, "", 0),
     N("Name", 5, "test", 2, "c", 0),
     N("Assign", 5, "body", 3, "", 0),
     N("AssignName", 7, "targets", 3, "x", 0),
     N("Const", 7, "value", 3, "", 1),
     N("Expr", 5, "orelse", 5, "", 0),
     N("Name", 10, "value", 5, "x", 0) >>

(* StarArgs:
     def f(a, b):
         return b
     if c:
         u = (1, 2)
     else:
         u = (3,)
     f( *u)
     s = (3,)
     f( *s)
     f( *f)
     f( *5)
   nodes: 1=Module, 2=FunctionDef(f), 3=Arguments, 4=AssignName(a), 5=AssignName(b), 6=Return, 7=Name(b), 8=If, 9=Name(c), 10=Assign, 11=AssignName(u), 12=Tuple, 13=Const, 14=Const, 15=Assign, 16=AssignName(u), 17=Tuple, 18=Const, 19=Expr, 20=Call, 21=Name(f), 22=Name(u), 23=Assign, 24=AssignName(s), 25=Tuple, 26=Const, 27=Expr, 28=Call, 29=Name(f), 30=Name(s), 31=Expr, 32=Call, 33=Name(f), 34=Name(f), 35=Expr, 36=Call, 37=Name(f), 38=Const *)
StarArgs ==
  << N("Module", 0, "", 0, "", 0),
     N("FunctionDef", 1, "body", 1, "f", 0),
     N("Arguments", 2, "args", 1, "", 0),
     N("AssignName", 3, "args", 1, "a", 0),
     N("AssignName", 3, "args", 1, "b", 0),
     N("Return", 2, "body", 2, "", 0),
     N("Name", 6, "value", 2, "b", 0),
     N("If", 1, "body", 3, "", 0),
     N("Name", 8, "test", 3, "c", 0),
     N("Assign", 8, "body", 4, "", 0),
     N("AssignName", 10, "targets", 4, "u", 0),
     N("Tuple", 10, "value", 4, "", 0),
     N("Const", 12, "elts", 4, "", 1),
     N("Const", 12, "elts", 4, "", 2),
     N("Assign", 8, "orelse", 6, "", 0),
     N("AssignName", 15, "targets", 6, "u", 0),
     N("Tuple", 15, "value", 6, "", 0),
     N("Const", 17, "elts", 6, "", 3),
     N("Expr", 1, "body", 7, "", 0),
     N("Call", 19, "value", 7, "", 0),
     N("Name", 20, "func", 7, "f", 0),
     N("Name", 20, "starargs", 7, "u", 0),
     N("Assign", 1, "body", 8, "", 0),
     N("AssignName", 23, "targets", 8, "s", 0),
     N("Tuple", 23, "value", 8, "", 0),
     N("Const", 25, "elts", 8, "", 3),
     N("Expr", 1, "body", 9, "", 0),
     N("Call", 27, "value", 9, "", 0),
     N("Name", 28, "func", 9, "f", 0),
     N("Name", 28, "starargs", 9, "s", 0),
     N("Expr", 1, "body", 10, "", 0),
     N("Call", 31, "value", 10, "", 0),
     N("Name", 32, "func", 10, "f", 0),
     N("Name", 32, "starargs", 10, "f", 0),
     N("Expr", 1, "body", 11, "", 0),
     N("Call", 35, "value", 11, "", 0),
     N("Name", 36, "func", 11, "f", 0),
     N("Const", 36, "starargs", 11, "", 5) >>

(* UnknownOperand:
     a = b
     b = a
     a + 1
   nodes: 1=Module, 2=Assign, 3=AssignName(a), 4=Name(b), 5=Assign, 6=AssignName(b), 7=Name(a), 8=Expr, 9=BinOp(+), 10=Name(a), 11=Const *)
UnknownOperand ==
  << N("Module", 0, "", 0, "", 0),
     N("Assign", 1, "body", 1, "", 0),
     N("AssignName", 2, "targets", 1, "a", 0),
     N("Name", 2, "value", 1, "b", 0),
     N("Assign", 1, "body", 2, "", 0),
     N("AssignName", 5, "targets", 2, "b", 0),
     N("Name", 5, "value", 2, "a", 0),
     N("Expr", 1, "body", 3, "", 0),
     N("BinOp", 8, "value", 3, "+", 0),
     N("Name", 9, "left", 3, "a", 0),
     N("Const", 9, "right", 3, "", 1) >>

(* Subscripts:
     t = (1, 2)
     (1, 2)[0]
     (1, 2)[5]
     (1, 2)["a"]
     (1, 2)[0, 1]
     t[0]
     (1, 2)[b]
     (1, 2)[t]
     "ab"[1]
   nodes: 1=Module, 2=Assign, 3=AssignName(t), 4=Tuple, 5=Const, 6=Const, 7=Expr, 8=Subscript, 9=Tuple, 10=Const, 11=Const, 12=Const, 13=Expr, 14=Subscript, 15=Tuple, 16=Const, 17=Const, 18=Const, 19=Expr, 20=Subscript, 21=Tuple, 22=Const, 23=Const, 24=Const(str), 25=Expr, 26=Subscript, 27=Tuple, 28=Const, 29=Const, 30=Const, 31=Const, 32=Expr, 33=Subscript, 34=Name(t), 35=Const, 36=Expr, 37=Subscript, 38=Tuple, 39=Const, 40=Const, 41=Name(b), 42=Expr, 43=Subscript, 44=Tuple, 45=Const, 46=Const, 47=Name(t), 48=Expr, 49=Subscript, 50=Const(str), 51=Const *)
Subscripts ==
  << N("Module", 0, "", 0, "", 0),
     N("Assign", 1, "body", 1, "", 0),
     N("AssignName", 2, "targets", 1, "t", 0),
     N("Tuple", 2, "value", 1, "", 0),
     N("Const", 4, "elts", 1, "", 1),
     N("Const", 4, "elts", 1, "", 2),
     N("Expr", 1, "body", 2, "", 0),
     N("Subscript", 7, "value", 2, "", 0),
     N("Tuple", 8, "expr", 2, "", 0),
     N("Const", 9, "elts", 2, "", 1),
     N("Const", 9, "elts", 2, "", 2),
     N("Const", 8, "subs", 2, "", 0),
     N("Expr", 1, "body", 3, "", 0),
     N("Subscript", 13, "value", 3, "", 0),
     N("Tuple", 14, "expr", 3, "", 0),
     N("Const", 15, "elts", 3, "", 1),
     N("Const", 15, "elts", 3, "", 2),
     N("Const", 14, "subs", 3, "", 5),
     N("Expr", 1, "body", 4, "", 0),
     N("Subscript", 19, "value", 4, "", 0),
     N("Tuple", 20, "expr", 4, "", 0),
     N("Const", 21, "elts", 4, "", 1),
     N("Const", 21, "elts", 4, "", 2),
     N("Const", 20, "subs", 4, "str", 1),
     N("Expr", 1, "body", 5, "", 0),
     N("Subscript", 25, "value", 5, "", 0),
     N("Tuple", 26, "expr", 5, "", 0),
     N("Const", 27, "elts", 5, "", 1),
     N("Const", 27, "elts", 5, "", 2),
     N("Const", 26, "subs", 5, "", 0),
     N("Const", 26, "subs", 5, "", 1),
     N("Expr", 1, "body", 6, "", 0),
     N("Subscript", 32, "value", 6, "", 0),
     N("Name", 33, "expr", 6, "t", 0),
     N("Const", 33, "subs", 6, "", 0),
     N("Expr", 1, "body", 7, "", 0),
     N("Subscript", 36, "value", 7, "", 0),
     N("Tuple", 37, "expr", 7, "", 0),
     N("Const", 38, "elts", 7, "", 1),
     N("Const", 38, "elts", 7, "", 2),
     N("Name", 37, "subs", 7, "b", 0),
     N("Expr", 1, "body", 8, "", 0),
     N("Subscript", 42, "value", 8, "", 0),
     N("Tuple", 43, "expr", 8, "", 0),
     N("Const", 44, "elts", 8, "", 1),
     N("Const", 44, "elts", 8, "", 2),
     N("Name", 43, "subs", 8, "t", 0),
     N("Expr", 1, "body", 9, "", 0),
     N("Subscript", 48, "value", 9, "", 0),
     N("Const", 49, "expr", 9, "str", 2),
     N("Const", 49, "subs", 9, "", 1) >>

(* Owners:
     class A:
         pass
     class B:
         x = 1
     if c:
         o = A
     else:
         o = B
     o.x
     o.y
     u = v
     v = u
     u.x
     if c:
         p = B
     else:
         p = A
     p.x
   nodes: 1=Module, 2=ClassDef(A), 3=Pass, 4=ClassDef(B), 5=Assign, 6=AssignName(x), 7=Const, 8=If, 9=Name(c), 10=Assign, 11=AssignName(o), 12=Name(A), 13=Assign, 14=AssignName(o), 15=Name(B), 16=Expr, 17=Attribute(x), 18=Name(o), 19=Expr, 20=Attribute(y), 21=Name(o), 22=Assign, 23=AssignName(u), 24=Name(v), 25=Assign, 26=AssignName(v), 27=Name(u), 28=Expr, 29=Attribute(x), 30=Name(u), 31=If, 32=Name(c), 33=Assign, 34=AssignName(p), 35=Name(B), 36=Assign, 37=AssignName(p), 38=Name(A), 39=Expr, 40=Attribute(x), 41=Name(p) *)
Owners ==
  << N("Module", 0, "", 0, "", 0),
     N("ClassDef", 1, "body", 1, "A", 0),
     N("Pass", 2, "body", 2, "", 0),
     N("ClassDef", 1, "body", 3, "B", 0),
     N("Assign", 4, "body", 4, "", 0),
     N("AssignName", 5, "targets", 4, "x", 0),
     N("Const", 5, "value", 4, "", 1),
     N("If", 1, "body", 5, "", 0),
     N("Name", 8, "test", 5, "c", 0),
     N("Assign", 8, "body", 6, "", 0),
     N("AssignName", 10, "targets", 6, "o", 0),
     N("Name", 10, "value", 6, "A", 0),
     N("Assign", 8, "orelse", 8, "", 0),
     N("AssignName", 13, "targets", 8, "o", 0),
     N("Name", 13, "value", 8, "B", 0),
     N("Expr", 1, "body", 9, "", 0),
     N("Attribute", 16, "value", 9, "x", 0),
     N("Name", 17, "expr", 9, "o", 0),
     N("Expr", 1, "body", 10, "", 0),
     N("Attribute", 19, "value", 10, "y", 0),
     N("Name", 20, "expr", 10, "o", 0),
     N("Assign", 1, "body", 11, "", 0),
     N("AssignName", 22, "targets", 11, "u", 0),
     N("Name", 22, "value", 11, "v", 0),
     N("Assign", 1, "body", 12, "", 0),
     N("AssignName", 25, "targets", 12, "v", 0),
     N("Name", 25, "value", 12, "u", 0),
     N("Expr", 1, "body", 13, "", 0),
     N("Attribute", 28, "value", 13, "x", 0),
     N("Name", 29, "expr", 13, "u", 0),
     N("If", 1, "body", 14, "", 0),
     N("Name", 31, "test", 14, "c", 0),
     N("Assign", 31, "body", 15, "", 0),
     N("AssignName", 33, "targets", 15, "p", 0),
     N("Name", 33, "value", 15, "B", 0),
     N("Assign", 31, "orelse", 17, "", 0),
     N("AssignName", 36, "targets", 17, "p", 0),
     N("Name", 36, "value", 17, "A", 0),
     N("Expr", 1, "body", 18, "", 0),
     N("Attribute", 39, "value", 18, "x", 0),
     N("Name", 40, "expr", 18, "p", 0) >>

(* Recursion:
     def f():
         return g()
     def g():
         return f()
     f()
   nodes: 1=Module, 2=FunctionDef(f), 3=Arguments, 4=Return, 5=Call, 6=Name(g), 7=FunctionDef(g), 8=Arguments, 9=Return, 10=Call, 11=Name(f), 12=Expr, 13=Call, 14=Name(f) *)
Recursion ==
  << N("Module", 0, "", 0, "", 0),
     N("FunctionDef", 1, "body", 1, "f", 0),
     N("Arguments", 2, "args", 1, "", 0),
     N("Return", 2, "body", 2, "", 0),
     N("Call", 4, "value", 2, "", 0),
     N("Name", 5, "func", 2, "g", 0),
     N("FunctionDef", 1, "body", 3, "g", 0),
     N("Arguments", 7, "args", 3, "", 0),
     N("Return", 7, "body", 4, "", 0),
     N("Call", 9, "value", 4, "", 0),
     N("Name", 10, "func", 4, "f", 0),
     N("Expr", 1, "body", 5, "", 0),
     N("Call", 12, "value", 5, "", 0),
     N("Name", 13, "func", 5, "f", 0) >>

Programs ==
  { SelfRef, MutualRef, IfElse, Straight, TryElse, Branches, Bases, Method,
    Required, Recursion }

VARIABLES
  T,      \* the node tree of the source unit under analysis
  fn,     \* the last call of a pure analysis function: arguments and result
  target, \* the node whose inference was requested
  gens,   \* the generators created so far, by id
  ctxs,   \* the InferenceContext objects created so far, by id
  path,   \* context.path, shared by all contexts of one inference request
  cur,    \* the generator (0: the top-level caller) the event is delivered to
  ev,     \* the event in flight
  out,    \* the values the top-level caller has received
  status, \* "idle", "running", "done", "failed" or "overflow"
  steps,  \* the number of steps the request has executed
  err,    \* the error that left the top-level infer call
  stack,  \* delayed_assignments: the nodes still to visit
  instance_attrs, \* << class, name >> -> the bindings recorded as instance attributes
  external_attrs, \* << owner, name >> -> the bindings recorded as external attributes
  cache,  \* the manager's unit cache: the units that have a registered node
  built,  \* how many times each unit's tree has been built
  calls,  \* the builds in progress, innermost last
  units   \* per unit: the units its tree imports, and whether it is a living module

\* the state of the post-build pass and of the unit cache
bvars == << stack, instance_attrs, external_attrs, cache, built, calls, units >>
vars ==
  << T, fn, target, gens, ctxs, path, cur, ev, out, status, steps, err, bvars >>
mvars == << target, gens, ctxs, path, cur, ev, out, status, steps, err, bvars >>

(***************************************************************************)
(* Tree navigation                                                         *)
(***************************************************************************)
Nodes == DOMAIN T
kind(n) == T[n].kind
parent(n) == T[n].par

StatementKinds ==
  {"Assign", "Expr", "If", "TryExcept", "ExceptHandler", "For", "While",
   "Delete", "ClassDef", "FunctionDef", "Return", "Pass"}
FrameKinds == {"Module", "ClassDef", "FunctionDef"}
SequenceFields == {"body", "orelse", "handlers", "targets", "args", "defaults",
                   "bases", "elts"}

RECURSIVE statement(_)
statement(n) ==
  IF kind(n) \in StatementKinds \/ parent(n) = 0 THEN n ELSE statement(parent(n))

RECURSIVE frame(_)
frame(n) == IF kind(n) \in FrameKinds THEN n ELSE frame(parent(n))

\* self.parent_of(node): self is a strict ancestor of node
RECURSIVE parent_of(_, _)
parent_of(self, node) ==
  IF parent(node) = 0 THEN FALSE
  ELSE IF parent(node) = self THEN TRUE
  ELSE parent_of(self, parent(node))

\* node.locate_child(child): the field holding child, and the sequence (or,
\* for a single-node field, the child itself) found in that field
locate_child(node, child) ==
  << T[child].fld,
     IF T[child].fld \in SequenceFields
       THEN << "seq", node, T[child].fld >>
       ELSE << "node", child, "" >> >>

\* the child nodes of n held in field f, in order
RECURSIVE field_from(_, _, _)
field_from(n, f, i) ==
  IF i > Len(T) THEN << >>
  ELSE IF parent(i) = n /\ T[i].fld = f THEN << i >> \o field_from(n, f, i + 1)
  ELSE field_from(n, f, i + 1)
field(n, f) == field_from(n, f, 1)

(***************************************************************************)
(* Mutual exclusivity                                                      *)
(***************************************************************************)
NoExceptions == [given |-> FALSE, names |-> {}]
Exceptions(S) == [given |-> TRUE, names |-> S]

\* a faulty catch that takes every handler to catch every name
catch_everything(handler, exceptions) == TRUE

\* ExceptHandler.catch(exceptions)
catch(handler, exceptions) ==
  \/ field(handler, "type") = << >>
  \/ ~exceptions.given
  \/ \E n \in Nodes :
       /\ kind(n) = "Name"
       /\ LET t == field(handler, "type")[1] IN n = t \/ parent_of(t, n)
       /\ T[n].name \in exceptions.names

\* children[node]: the child of ancestor `node` on the way down to stmt1
RECURSIVE children(_, _)
children(node, stmt1) ==
  IF parent(stmt1) = node THEN stmt1 ELSE children(node, parent(stmt1))

\* a faulty TryExcept branch that tests body-vs-handler in one direction only
tryexcept_exclusive_onesided(node, previous, child1, exceptions) ==
  LET c2 == locate_child(node, previous)
      c1 == locate_child(node, child1)
  IN IF c1[2] # c2[2]
       THEN \/ c2[1] = "body" /\ c1[1] = "handlers" /\ catch(child1, exceptions)
            \/ c2[1] = "handlers" /\ c1[1] = "orelse"
            \/ c2[1] = "orelse" /\ c1[1] = "handlers"
       ELSE IF c2[1] = "handlers" /\ c1[1] = "handlers"
              THEN previous # child1
              ELSE FALSE

\* a faulty TryExcept branch that asks the handler what it catches before
\* separating it from the else block
tryexcept_exclusive_catching(node, previous, child1, exceptions) ==
  LET c2 == locate_child(node, previous)
      c1 == locate_child(node, child1)
  IN IF c1[2] # c2[2]
       THEN \/ c2[1] = "body" /\ c1[1] = "handlers" /\ catch(child1, exceptions)
            \/ c2[1] = "handlers" /\ c1[1] = "body" /\ catch(previous, exceptions)
            \/ c2[1] = "handlers" /\ c1[1] = "orelse" /\ catch(previous, exceptions)
            \/ c2[1] = "orelse" /\ c1[1] = "handlers" /\ catch(child1, exceptions)
       ELSE IF c2[1] = "handlers" /\ c1[1] = "handlers"
              THEN previous # child1
              ELSE FALSE

\* a faulty TryExcept branch that never separates two handlers
tryexcept_exclusive_handlers_alike(node, previous, child1, exceptions) ==
  LET c2 == locate_child(node, previous)
      c1 == locate_child(node, child1)
  IN IF c1[2] # c2[2]
       THEN \/ c2[1] = "body" /\ c1[1] = "handlers" /\ catch(child1, exceptions)
            \/ c2[1] = "handlers" /\ c1[1] = "body" /\ catch(previous, exceptions)
            \/ c2[1] = "handlers" /\ c1[1] = "orelse"
            \/ c2[1] = "orelse" /\ c1[1] = "handlers"
       ELSE FALSE

\* the TryExcept branch of are_exclusive, at the common parent `node`
tryexcept_exclusive(node, previous, child1, exceptions) ==
  LET c2 == locate_child(node, previous)
      c1 == locate_child(node, child1)
      c2attr == c2[1]
      c1attr == c1[1]
  IN IF c1[2] # c2[2]
       THEN \/ c2attr = "body" /\ c1attr = "handlers" /\ catch(child1, exceptions)
            \/ c2attr = "handlers" /\ c1attr = "body" /\ catch(previous, exceptions)
            \/ c2attr = "handlers" /\ c1attr = "orelse"
            \/ c2attr = "orelse" /\ c1attr = "handlers"
       ELSE IF c2attr = "handlers" /\ c1attr = "handlers"
              THEN previous # child1
              ELSE FALSE

\* a faulty If branch that never separates the two branches
if_exclusive_never(node, previous, child1) == FALSE

\* the If branch of are_exclusive, at the common parent `node`
if_exclusive(node, previous, child1) ==
  locate_child(node, previous)[2] # locate_child(node, child1)[2]

\* the decision taken at the first common parent
common_parent_exclusive(node, previous, child1, exceptions) ==
  IF kind(node) = "If" /\ ~exceptions.given
    THEN if_exclusive(node, previous, child1)
    ELSE IF kind(node) = "TryExcept"
      THEN tryexcept_exclusive(node, previous, child1, exceptions)
      ELSE FALSE

\* climb among stmt2's parents until a parent of stmt1 is found
RECURSIVE climb(_, _, _, _)
climb(node, previous, stmt1, exceptions) ==
  IF node = 0 THEN FALSE
  ELSE IF parent_of(node, stmt1)
    THEN common_parent_exclusive(node, previous, children(node, stmt1), exceptions)
    ELSE climb(parent(node), node, stmt1, exceptions)

are_exclusive(stmt1, stmt2, exceptions) ==
  climb(parent(stmt2), stmt2, stmt1, exceptions)

(***************************************************************************)
(* Statement filtering                                                     *)
(***************************************************************************)
ParentAssignTypeKinds == {"AssignName", "DelName", "Tuple", "List"}
AssignTypeKinds == {"Assign", "For", "ExceptHandler", "Arguments", "Delete"}

RECURSIVE assign_type(_)
assign_type(n) ==
  IF kind(n) \in ParentAssignTypeKinds THEN assign_type(parent(n)) ELSE n

optional_assign(n) == kind(n) \in {"For", "Comprehension"}

\* candidate.has_base(node): a class definition listing node among its bases
has_base(candidate, node) ==
  kind(candidate) = "ClassDef" /\ parent(node) = candidate /\ T[node].fld = "bases"

\* assign_type._get_filtered_stmts(lookup_node, node, _stmts, mystmt)
get_filtered_stmts(at, lookup_node, node, stmts, mystmt) ==
  IF kind(at) = "Comprehension"
    THEN IF at = mystmt
           THEN IF kind(lookup_node) \in {"Const", "Name"}
                  THEN [stmts |-> << lookup_node >>, done |-> TRUE]
                  ELSE [stmts |-> stmts, done |-> FALSE]
           ELSE IF statement(at) = mystmt
                  THEN [stmts |-> << node >>, done |-> TRUE]
                  ELSE [stmts |-> stmts, done |-> FALSE]
  ELSE IF kind(at) \in AssignTypeKinds /\ at = mystmt
    THEN [stmts |-> stmts, done |-> TRUE]
  ELSE IF statement(at) = mystmt
    THEN [stmts |-> << node >>, done |-> TRUE]
  ELSE [stmts |-> stmts, done |-> FALSE]

\* list.index(x): the first position of x in s, 0 when absent
RECURSIVE index_from(_, _, _)
index_from(s, x, i) ==
  IF i > Len(s) THEN 0 ELSE IF s[i] = x THEN i ELSE index_from(s, x, i + 1)
index(s, x) == index_from(s, x, 1)

\* del s[i]
del_at(s, i) == SubSeq(s, 1, i - 1) \o SubSeq(s, i + 1, Len(s))

\* the frame a lookup node filters in (head of _filter_stmts)
filter_frame(self, offset) ==
  IF offset = -1
    THEN frame(parent(frame(self)))
    ELSE LET myframe == frame(self)
         IN IF statement(self) = myframe /\ parent(myframe) # 0
              THEN frame(parent(myframe))
              ELSE myframe

\* a faulty line test that never stops at the lookup's own location
past_location_never(stmt, mylineno) == FALSE

\* line filtering is on and the candidate lies after the lookup's location
past_location(stmt, mylineno) == mylineno > 0 /\ T[stmt].line > mylineno

\* a faulty loop body without the test of line 192: a class derived from the
\* lookup node is treated as any other candidate
filter_visit_ignoring_bases(self, node, S, Pa, mystmt, mylineno) ==
  LET stmt == statement(node)
      at   == assign_type(node)
      g    == get_filtered_stmts(at, self, node, S, mystmt)
      opt  == optional_assign(at)
      pindex == index(Pa, parent(stmt))
      drop == pindex # 0 /\ ~(opt \/ are_exclusive(S[pindex], node, NoExceptions))
      S1   == IF drop THEN del_at(S, pindex) ELSE S
      Pa1  == IF drop THEN del_at(Pa, pindex) ELSE Pa
      clear == kind(node) = "AssignName" /\ ~opt /\ parent(stmt) = parent(mystmt)
      S2   == IF clear THEN << >> ELSE S1
      Pa2  == IF clear THEN << >> ELSE Pa1
  IN IF past_location(stmt, mylineno)
       THEN [S |-> S, Pa |-> Pa, brk |-> TRUE]
     ELSE IF g.done
       THEN [S |-> g.stmts, Pa |-> Pa, brk |-> TRUE]
     ELSE IF opt /\ parent_of(at, self)
       THEN [S |-> << node >>, Pa |-> << parent(stmt) >>, brk |-> FALSE]
     ELSE IF pindex # 0 /\ parent_of(assign_type(S[pindex]), at)
       THEN [S |-> S, Pa |-> Pa, brk |-> FALSE]
     ELSE IF kind(node) = "DelName"
       THEN [S |-> << >>, Pa |-> << >>, brk |-> FALSE]
     ELSE IF ~are_exclusive(self, node, NoExceptions)
       THEN [S |-> Append(S2, node), Pa |-> Append(Pa2, parent(stmt)), brk |-> FALSE]
     ELSE [S |-> S2, Pa |-> Pa2, brk |-> FALSE]

\* one iteration of the loop of _filter_stmts over candidate `node`;
\* brk = the loop is left
filter_visit(self, node, S, Pa, mystmt, mylineno) ==
  LET stmt == statement(node)
      at   == assign_type(node)
      g    == get_filtered_stmts(at, self, node, S, mystmt)
      opt  == optional_assign(at)
      pindex == index(Pa, parent(stmt))
      drop == pindex # 0 /\ ~(opt \/ are_exclusive(S[pindex], node, NoExceptions))
      S1   == IF drop THEN del_at(S, pindex) ELSE S
      Pa1  == IF drop THEN del_at(Pa, pindex) ELSE Pa
      clear == kind(node) = "AssignName" /\ ~opt /\ parent(stmt) = parent(mystmt)
      S2   == IF clear THEN << >> ELSE S1
      Pa2  == IF clear THEN << >> ELSE Pa1
  IN IF past_location(stmt, mylineno)
       THEN [S |-> S, Pa |-> Pa, brk |-> TRUE]
     ELSE IF has_base(node, self)
       THEN [S |-> S, Pa |-> Pa, brk |-> TRUE]
     ELSE IF g.done
       THEN [S |-> g.stmts, Pa |-> Pa, brk |-> TRUE]
     ELSE IF opt /\ parent_of(at, self)
       THEN [S |-> << node >>, Pa |-> << parent(stmt) >>, brk |-> FALSE]
     ELSE IF pindex # 0 /\ parent_of(assign_type(S[pindex]), at)
       THEN [S |-> S, Pa |-> Pa, brk |-> FALSE]
     ELSE IF kind(node) = "DelName"
       THEN [S |-> << >>, Pa |-> << >>, brk |-> FALSE]
     ELSE IF ~are_exclusive(self, node, NoExceptions)
       THEN [S |-> Append(S2, node), Pa |-> Append(Pa2, parent(stmt)), brk |-> FALSE]
     ELSE [S |-> S2, Pa |-> Pa2, brk |-> FALSE]

RECURSIVE filter_loop(_, _, _, _, _, _, _)
filter_loop(self, stmts, i, S, Pa, mystmt, mylineno) ==
  IF i > Len(stmts) THEN S
  ELSE LET r == filter_visit(self, stmts[i], S, Pa, mystmt, mylineno)
       IN IF r.brk THEN r.S
          ELSE filter_loop(self, stmts, i + 1, r.S, r.Pa, mystmt, mylineno)

\* a faulty filter that keeps every candidate
filter_stmts_unfiltered(self, stmts, frm, offset) == stmts

\* LookupMixIn._filter_stmts(self, stmts, frame, offset)
filter_stmts(self, stmts, frm, offset) ==
  IF filter_frame(self, offset) # frm \/ self = frm
    THEN stmts
    ELSE filter_loop(self, stmts, 1, << >>, << >>, statement(self),
                     T[statement(self)].line + offset)

(***************************************************************************)
(* Scope lookup                                                            *)
(***************************************************************************)
\* frame.locals[name]: the binding nodes of name recorded in frame frm
RECURSIVE locals_from(_, _, _)
locals_from(frm, name, i) ==
  IF i > Len(T) THEN << >>
  ELSE IF /\ T[i].name = name
          /\ \/ kind(i) \in {"AssignName", "DelName"} /\ frame(i) = frm
             \/ kind(i) \in {"ClassDef", "FunctionDef"} /\ frame(parent(i)) = frm
       THEN << i >> \o locals_from(frm, name, i + 1)
       ELSE locals_from(frm, name, i + 1)
locals(frm, name) == locals_from(frm, name, 1)

\* node.scope(): the scope owning a node that is no scope itself
scope(node) == frame(parent(node))

\* scope_lookup's choice of resolving frame and line offset
lookup_start(scp, node) ==
  IF \/ kind(scp) = "ClassDef" /\ parent(node) = scp /\ T[node].fld = "bases"
     \/ kind(scp) = "FunctionDef" /\ kind(parent(node)) = "Arguments"
          /\ parent(parent(node)) = scp /\ T[node].fld = "defaults"
    THEN [frm |-> frame(parent(scp)), offset |-> -1]
    ELSE [frm |-> scp, offset |-> 0]

\* the enclosing scope a failed lookup continues in: a function, else the module
RECURSIVE root(_)
root(n) == IF parent(n) = 0 THEN n ELSE root(parent(n))
outer_scope(frm) ==
  LET pscope == frame(parent(frm))
  IN IF kind(pscope) = "FunctionDef" THEN pscope ELSE root(pscope)

RECURSIVE scope_lookup(_, _, _, _)
scope_lookup(frm, node, name, offset) ==
  LET stmts == filter_stmts(node, locals(frm, name), frm, offset)
  IN IF stmts # << >> THEN [frm |-> frm, stmts |-> stmts]
     ELSE IF parent(frm) # 0
       THEN LET s == lookup_start(outer_scope(frm), node)
            IN scope_lookup(s.frm, node, name, s.offset)
       ELSE [frm |-> frm, stmts |-> << >>]

\* LookupMixIn.lookup(name)
lookup(node, name) ==
  LET s == lookup_start(scope(node), node)
  IN scope_lookup(s.frm, node, name, s.offset)

(***************************************************************************)
(* Calls of the pure analysis functions                                    *)
(***************************************************************************)
ExcNames == {"ValueError", "KeyError"}
ExceptionArgs == {NoExceptions} \cup {Exceptions(S) : S \in SUBSET ExcNames}

Idle ==
  [op |-> "idle", a |-> 0, b |-> 0, exc |-> NoExceptions, excl |-> FALSE,
   frm |-> 0, offset |-> 0, stmts |-> << >>, out |-> << >>]

\* nodes with lookup rules, and the frames a lookup from node can resolve in
LookupNodes == {n \in Nodes : kind(n) \in {"Name", "AssignName", "DelName"}}
ResolvingFrames(node) ==
  {f \in Nodes : kind(f) \in FrameKinds /\ (f = scope(node) \/ parent_of(f, scope(node)))}

\* no post-build pass and no build is under way
NoBuild ==
  /\ stack = << >>
  /\ instance_attrs = << >>
  /\ external_attrs = << >>
  /\ cache = {}
  /\ built = << >>
  /\ calls = << >>
  /\ units = << >>

InitAnalysis ==
  /\ T \in Programs
  /\ fn = Idle
  /\ target = 0
  /\ gens = << >>
  /\ ctxs = << >>
  /\ path = << >>
  /\ cur = 0
  /\ ev = [k |-> "none", v |-> [k |-> "None", n |-> 0, w |-> 0, f |-> 0], e |-> ""]
  /\ out = << >>
  /\ status = "idle"
  /\ steps = 0
  /\ err = ""
  /\ NoBuild

CallAreExclusive ==
  \E a \in Nodes, b \in Nodes, exc \in ExceptionArgs :
    /\ fn.op = "idle"
    /\ fn' = [Idle EXCEPT !.op = "are_exclusive", !.a = a, !.b = b, !.exc = exc,
                          !.excl = are_exclusive(a, b, exc)]
    /\ UNCHANGED << T, mvars >>

CallFilterStmts ==
  \E node \in LookupNodes :
    \E frm \in ResolvingFrames(node) :
      LET s == lookup_start(scope(node), node)
          offset == IF frm = s.frm THEN s.offset ELSE 0
          stmts == locals(frm, T[node].name)
      IN /\ fn.op = "idle"
         /\ fn' = [Idle EXCEPT !.op = "filter_stmts", !.a = node, !.frm = frm,
                               !.offset = offset, !.stmts = stmts,
                               !.out = filter_stmts(node, stmts, frm, offset)]
         /\ UNCHANGED << T, mvars >>

\* the filter applied to its own result, same lookup node, frame and offset
FilterAgain ==
  /\ fn.op \in {"filter_stmts", "filter_again"}
  /\ fn' = [fn EXCEPT !.op = "filter_again", !.stmts = fn.out,
                      !.out = filter_stmts(fn.a, fn.out, fn.frm, fn.offset)]
  /\ UNCHANGED << T, mvars >>

SpecExclusive == InitAnalysis /\ [][CallAreExclusive]_vars
SpecFilter == InitAnalysis /\ [][CallFilterStmts \/ FilterAgain]_vars

(***************************************************************************)
(* Inferred values and inference contexts                                  *)
(***************************************************************************)
NoneV == [k |-> "None", n |-> 0, w |-> 0, f |-> 0]
\* the value of a bare `return`
ConstNone == [k |-> "Const", n |-> 0, w |-> 0, f |-> 0]
\* the Unknown sentinel
YES == [k |-> "YES", n |-> 0, w |-> 0, f |-> 0]
\* a tree node standing for itself
NodeV(n) == [k |-> "node", n |-> n, w |-> 0, f |-> 0]
\* Instance(v): v wrapped once more; w counts the wrappers around class n
Instance(v) == [k |-> "Instance", n |-> v.n, w |-> v.w + 1, f |-> 0]
\* a function node f bound to receiver b
BoundMethod(f, b) == [k |-> "BoundMethod", n |-> b.n, w |-> b.w, f |-> f]
bound(bm) ==
  IF bm.w = 0 THEN NodeV(bm.n) ELSE [k |-> "Instance", n |-> bm.n, w |-> bm.w, f |-> 0]

InferenceContext == [lookupname |-> "", callcontext |-> 0, boundnode |-> NoneV]
\* InferenceContext.clone(): the path is shared, the lookup name is not copied
clone(c) == [lookupname |-> "", callcontext |-> c.callcontext, boundnode |-> c.boundnode]
\* the context part of a cycle-guard entry
signature(c) == << c.boundnode, c.lookupname, c.callcontext >>

IsInferenceError(e) == e \in {"InferenceError", "UnresolvableName"}

(***************************************************************************)
(* Lazy sequences.  Every activation of a rule is a generator record; the  *)
(* consumer of a generator is its par (0 = the top-level caller).  One     *)
(* event is in flight: "run" resumes generator cur, "yield"/"stop"/"raise" *)
(* hand a value, exhaustion or an error of a sub-sequence to consumer cur. *)
(* p0 remembers context.path as a cycle guard found it on entry; done tells *)
(* a generator that has run to its end from one suspended at a yield.      *)
(***************************************************************************)
Gen(rule, v, ctx, par, s, lst, frm) ==
  [rule |-> rule, v |-> v, ctx |-> ctx, par |-> par, s |-> s, lst |-> lst,
   frm |-> frm, pc |-> "start", i |-> 0, sub |-> 0, sub2 |-> 0, flag |-> FALSE,
   c2 |-> 0, p0 |-> << >>, done |-> FALSE]

EvRun == [k |-> "run", v |-> NoneV, e |-> ""]

SetGen(S, g, r) == [S EXCEPT !.gens[g] = r]
NextGen(S) == Len(S.gens) + 1
NextCtx(S) == Len(S.ctxs) + 1
AddCtx(S, c) == [S EXCEPT !.ctxs = Append(@, c)]
Deliver(S, to, e) == [S EXCEPT !.cur = to, !.ev = e]
\* start a new generator and run it to its first event
Spawn(S, r) == Deliver([S EXCEPT !.gens = Append(@, r)], Len(S.gens) + 1, EvRun)
Resume(S, c) == Deliver(S, c, EvRun)
Yield(S, g, v) == Deliver(S, S.gens[g].par, [k |-> "yield", v |-> v, e |-> ""])
\* generator g has run to its end, by exhaustion or by an error
Finished(S, g) == [S EXCEPT !.gens[g].done = TRUE]
Stop(S, g) ==
  Deliver(Finished(S, g), S.gens[g].par, [k |-> "stop", v |-> NoneV, e |-> ""])
Raise(S, g, e) ==
  Deliver(Finished(S, g), S.gens[g].par, [k |-> "raise", v |-> NoneV, e |-> e])

\* a generator whose body is `for x in sub: yield x`
Forward(S, g) ==
  LET G == S.gens[g]
  IN CASE S.ev.k = "yield" -> Yield(S, g, S.ev.v)
       [] S.ev.k = "run"   -> Resume(S, G.sub)
       [] S.ev.k = "stop"  -> Stop(S, g)
       [] S.ev.k = "raise" -> Raise(S, g, S.ev.e)

(***************************************************************************)
(* node.infer(context): the rule attached to each node kind                *)
(***************************************************************************)
EndKinds ==
  {"Module", "ClassDef", "FunctionDef", "Lambda", "Const", "List", "Tuple", "Dict"}
PathWrapped ==
  {"infer_name", "infer_ass", "infer_callfunc", "infer_getattr", "infer_unaryop",
   "infer_binop", "infer_subscript"}
RaiseIfNothing == {"infer_callfunc", "infer_getattr"}

infer_rule(v) ==
  IF v.k # "node" THEN "infer_end"
  ELSE CASE kind(v.n) = "Name" -> "infer_name"
         [] kind(v.n) = "AssignName" -> "infer_ass"
         [] kind(v.n) = "Call" -> "infer_callfunc"
         [] kind(v.n) = "Attribute" -> "infer_getattr"
         [] kind(v.n) = "UnaryOp" -> "infer_unaryop"
         [] kind(v.n) = "BinOp" -> "infer_binop"
         [] kind(v.n) = "Subscript" -> "infer_subscript"
         [] kind(v.n) \in EndKinds -> "infer_end"
         [] OTHER -> "infer_default"

\* a faulty registration of the rules that leaves the cycle guard out
infer_unguarded(v, ctx, par) ==
  IF infer_rule(v) \in RaiseIfNothing
    THEN Gen("raise_if_nothing_infered", v, ctx, par, infer_rule(v), << >>, 0)
    ELSE Gen(infer_rule(v), v, ctx, par, "", << >>, 0)

\* node.infer(context): the rule registered for the node, with its wrappers
infer(v, ctx, par) ==
  IF infer_rule(v) \in PathWrapped
    THEN Gen("path_wrapper", v, ctx, par, infer_rule(v), << >>, 0)
    ELSE Gen(infer_rule(v), v, ctx, par, "", << >>, 0)

\* infer_default: no rule for this kind of node
do_infer_default(S) == Raise(S, S.cur, "InferenceError")

\* infer_end: the node is its own value
do_infer_end(S) ==
  LET g == S.cur
      G == S.gens[g]
  IN IF G.pc = "start"
       THEN Yield(SetGen(S, g, [G EXCEPT !.pc = "end"]), g, G.v)
       ELSE Stop(S, g)

InPath(pth, entry) == \E i \in DOMAIN pth : pth[i] = entry
\* a faulty release that leaves the entry on the path
pop_nothing(pth) == pth
pop(pth) == SubSeq(pth, 1, Len(pth) - 1)

\* path_wrapper(func): the cycle guard around a rule
do_path_wrapper(S) ==
  LET g == S.cur
      G == S.gens[g]
      e == S.ev
      entry == << G.v, signature(S.ctxs[G.ctx]) >>
      inner == IF G.s \in RaiseIfNothing
                 THEN Gen("raise_if_nothing_infered", G.v, G.ctx, g, G.s, << >>, 0)
                 ELSE Gen(G.s, G.v, G.ctx, g, "", << >>, 0)
  IN CASE G.pc = "start" ->
            IF InPath(S.path, entry)
              THEN Yield(SetGen(S, g, [G EXCEPT !.pc = "hit"]), g, YES)
              ELSE Spawn(SetGen([S EXCEPT !.path = Append(@, entry)], g,
                                [G EXCEPT !.pc = "iter", !.sub = NextGen(S),
                                          !.p0 = S.path]),
                         inner)
       [] G.pc = "hit" -> Stop(S, g)
       [] G.pc = "iter" /\ e.k = "yield" ->
            IF \E i \in DOMAIN G.lst : G.lst[i] = e.v
              THEN Resume(S, G.sub)
              ELSE Yield(SetGen(S, g, [G EXCEPT !.lst = Append(@, e.v)]), g, e.v)
       [] G.pc = "iter" /\ e.k = "run" -> Resume(S, G.sub)
       [] G.pc = "iter" /\ e.k = "stop" ->
            Stop([S EXCEPT !.path = pop(@)], g)
       [] G.pc = "iter" /\ e.k = "raise" ->
            Raise([S EXCEPT !.path = pop(@)], g, e.e)

\* raise_if_nothing_infered(func): an empty sequence becomes an error
do_raise_if_nothing_infered(S) ==
  LET g == S.cur
      G == S.gens[g]
      e == S.ev
  IN CASE G.pc = "start" ->
            Spawn(SetGen(S, g, [G EXCEPT !.pc = "iter", !.sub = NextGen(S)]),
                  Gen(G.s, G.v, G.ctx, g, "", << >>, 0))
       [] G.pc = "iter" /\ e.k = "yield" ->
            Yield(SetGen(S, g, [G EXCEPT !.flag = TRUE]), g, e.v)
       [] G.pc = "iter" /\ e.k = "stop" /\ ~G.flag -> Raise(S, g, "InferenceError")
       [] OTHER -> Forward(S, g)

\* stmt._infer_name(frame, name)
infer_name_of(stmt, frm, name) ==
  IF stmt.k # "node" THEN ""
  ELSE IF kind(stmt.n) \in {"Global", "TryExcept", "Import", "ImportFrom"} THEN name
  ELSE IF kind(stmt.n) = "Arguments" /\ parent(stmt.n) = frm THEN name
  ELSE ""

\* _infer_stmts(stmts, context, frame): the loop from statement G.i on
infer_stmts_from(S, g, i) ==
  LET G == S.gens[g]
  IN IF i > Len(G.lst)
       THEN IF G.flag THEN Stop(S, g) ELSE Raise(S, g, "InferenceError")
     ELSE IF G.lst[i] = YES
       THEN Yield(SetGen(S, g, [G EXCEPT !.pc = "next", !.i = i + 1, !.flag = TRUE]),
                  g, YES)
     ELSE Spawn(SetGen([S EXCEPT !.ctxs[G.c2].lookupname =
                                    infer_name_of(G.lst[i], G.frm, G.s)],
                       g, [G EXCEPT !.pc = "iter", !.i = i, !.sub = NextGen(S)]),
                infer(G.lst[i], G.c2, g))

\* _infer_stmts(stmts, context, frame)
do_infer_stmts(S) ==
  LET g == S.cur
      G == S.gens[g]
      e == S.ev
  IN CASE G.pc = "start" ->
            infer_stmts_from(
              SetGen(AddCtx(S, clone(S.ctxs[G.ctx])), g,
                     [G EXCEPT !.c2 = NextCtx(S), !.s = S.ctxs[G.ctx].lookupname]),
              g, 1)
       [] G.pc = "next" -> infer_stmts_from(S, g, G.i)
       [] G.pc = "iter" /\ e.k = "yield" ->
            Yield(SetGen(S, g, [G EXCEPT !.flag = TRUE]), g, e.v)
       [] G.pc = "iter" /\ e.k = "run" -> Resume(S, G.sub)
       [] G.pc = "iter" /\ e.k = "stop" -> infer_stmts_from(S, g, G.i + 1)
       [] G.pc = "iter" /\ e.k = "raise" ->
            IF e.e = "UnresolvableName" THEN infer_stmts_from(S, g, G.i + 1)
            ELSE IF e.e = "InferenceError"
              THEN Yield(SetGen(S, g, [G EXCEPT !.pc = "next", !.i = G.i + 1,
                                                !.flag = TRUE]), g, YES)
              ELSE Raise(S, g, e.e)

\* the binding nodes as values
node_values(s) == [i \in DOMAIN s |-> NodeV(s[i])]

\* infer_name: lookup, then inference of the surviving bindings
do_infer_name(S) ==
  LET g == S.cur
      G == S.gens[g]
      name == T[G.v.n].name
      found == lookup(G.v.n, name)
  IN IF G.pc = "start"
       THEN IF found.stmts = << >>
              THEN Raise(S, g, "UnresolvableName")
              ELSE Spawn(SetGen(AddCtx(S, [clone(S.ctxs[G.ctx]) EXCEPT !.lookupname = name]),
                                g, [G EXCEPT !.pc = "fwd", !.sub = NextGen(S)]),
                         Gen("_infer_stmts", NoneV, NextCtx(S), g, "",
                             node_values(found.stmts), found.frm))
       ELSE Forward(S, g)


(***************************************************************************)
(* Constants and sequences                                                 *)
(***************************************************************************)
\* const_factory(value): f is the value's type, n the value (of a string:
\* its length)
TypeCode == [none |-> 0, int |-> 1, str |-> 2, bool |-> 3]
const_factory(type, value) == [k |-> "Const", n |-> value, w |-> 0, f |-> type]
IsConst(v) == v.k = "Const" \/ (v.k = "node" /\ kind(v.n) = "Const")
const_type(v) ==
  IF v.k = "node" THEN (IF T[v.n].name = "str" THEN TypeCode.str ELSE TypeCode.int) ELSE v.f
const_value(v) == IF v.k = "node" THEN T[v.n].val ELSE v.n

Returned(v) == [r |-> "value", v |-> v]
Raised(e) == [r |-> e, v |-> NoneV]


\* value.getitem(idx): the element of a tuple or list display (self.elts[index]),
\* the character of a string constant; other constants raise TypeError, values
\* without getitem AttributeError.  idx is a constant value, the index
getitem(v, idx) ==
  IF v.k = "node" /\ kind(v.n) \in {"Tuple", "List"}
    THEN LET elts == field(v.n, "elts")
             i == const_value(idx)
         IN IF const_type(idx) \notin {TypeCode.int, TypeCode.bool}
              THEN Raised("TypeError")
            ELSE IF i >= 0 /\ i < Len(elts) THEN Returned(NodeV(elts[i + 1]))
            ELSE IF i < 0 /\ 0 - i <= Len(elts) THEN Returned(NodeV(elts[Len(elts) + i + 1]))
            ELSE Raised("IndexError")
  ELSE IF IsConst(v)
    THEN IF const_type(v) # TypeCode.str
              \/ const_type(idx) \notin {TypeCode.int, TypeCode.bool}
           THEN Raised("TypeError")
         ELSE IF /\ const_value(idx) < const_value(v)
                 /\ 0 - const_value(idx) <= const_value(v)
           THEN Returned(const_factory(TypeCode.str, 1))
         ELSE Raised("IndexError")
  ELSE Raised("AttributeError")
\* infer_ass: inference of the statements assigned to an AssignName
do_infer_ass(S) ==
  LET g == S.cur
      G == S.gens[g]
      e == S.ev
  IN CASE G.pc = "start" ->
            Spawn(SetGen(S, g, [G EXCEPT !.pc = "list", !.sub = NextGen(S)]),
                  Gen("assigned_stmts", G.v, G.ctx, g, "", << >>, 0))
       [] G.pc = "list" /\ e.k = "yield" ->
            Resume(SetGen(S, g, [G EXCEPT !.lst = Append(@, e.v)]), G.sub)
       [] G.pc = "list" /\ e.k = "stop" ->
            Spawn(SetGen(S, g, [G EXCEPT !.pc = "fwd", !.sub = NextGen(S)]),
                  Gen("_infer_stmts", NoneV, G.ctx, g, "", G.lst, 0))
       [] G.pc = "list" /\ e.k = "raise" -> Raise(S, g, e.e)
       [] G.pc = "fwd" -> Forward(S, g)

\* FunctionDef.type
functype(f) == IF kind(frame(parent(f))) = "ClassDef" THEN "method" ELSE "function"

\* Arguments.find_argname(argname): the 0-based index of the parameter, -1 for None
find_argname(args, argname) ==
  LET names == field(args, "args")
  IN IF \E i \in DOMAIN names : T[names[i]].name = argname
       THEN (CHOOSE i \in DOMAIN names :
               /\ T[names[i]].name = argname
               /\ \A j \in DOMAIN names : T[names[j]].name = argname => i <= j) - 1
       ELSE -1

\* Arguments.default_value(argname): the default's node, 0 when NoDefault is raised
default_value(args, argname) ==
  LET i == find_argname(args, argname)
      idx == i - (Len(field(args, "args")) - Len(field(args, "defaults")))
  IN IF i # -1 /\ idx >= 0 THEN field(args, "defaults")[idx + 1] ELSE 0

\* node.assigned_stmts(context) of an AssignName: the value node of its Assign,
\* or the binding of a parameter
do_assigned_stmts(S) ==
  LET g == S.cur
      G == S.gens[g]
      n == G.v.n
      c == S.ctxs[G.ctx]
  IN CASE G.pc = "start" /\ kind(parent(n)) = "Assign" ->
            Yield(SetGen(S, g, [G EXCEPT !.pc = "end"]), g,
                  NodeV(field(parent(n), "value")[1]))
       [] G.pc = "start" /\ kind(parent(n)) = "Arguments" /\ c.callcontext # 0 ->
            Spawn(SetGen(AddCtx(S, [clone(c) EXCEPT !.callcontext = 0]), g,
                         [G EXCEPT !.pc = "fwd", !.sub = NextGen(S)]),
                  Gen("infer_argument", NodeV(c.callcontext), NextCtx(S), g,
                      T[n].name, << >>, parent(parent(n))))
       [] G.pc = "start" /\ kind(parent(n)) = "Arguments" /\ c.callcontext = 0 ->
            Spawn(SetGen(S, g, [G EXCEPT !.pc = "fwd", !.sub = NextGen(S)]),
                  Gen("_arguments_infer_argname", NodeV(parent(n)), G.ctx, g,
                      T[n].name, << >>, 0))
       [] G.pc = "end" -> Stop(S, g)
       [] G.pc = "fwd" -> Forward(S, g)

\* _arguments_infer_argname(self, name, context): a parameter outside any call
do_arguments_infer_argname(S) ==
  LET g == S.cur
      G == S.gens[g]
      e == S.ev
      args == G.v.n
      func == parent(args)
      dflt == default_value(args, G.s)
  IN CASE G.pc = "start" /\ find_argname(args, G.s) = 0 /\ functype(func) = "method" ->
            Yield(SetGen(S, g, [G EXCEPT !.pc = "end"]), g,
                  Instance(NodeV(frame(parent(func)))))
       [] G.pc = "start" /\ ~(find_argname(args, G.s) = 0 /\ functype(func) = "method")
            /\ dflt # 0 ->
            Spawn(SetGen(AddCtx(S, clone(S.ctxs[G.ctx])), g,
                         [G EXCEPT !.pc = "default", !.sub = NextGen(S)]),
                  infer(NodeV(dflt), NextCtx(S), g))
       [] G.pc = "start" /\ ~(find_argname(args, G.s) = 0 /\ functype(func) = "method")
            /\ dflt = 0 ->
            Yield(SetGen(S, g, [G EXCEPT !.pc = "end"]), g, YES)
       [] G.pc = "default" /\ e.k = "stop" ->
            Yield(SetGen(S, g, [G EXCEPT !.pc = "end"]), g, YES)
       [] G.pc = "default" /\ e.k # "stop" -> Forward(S, g)
       [] G.pc = "end" -> Stop(S, g)

\* the positional arguments and the keyword arguments of a call
IsKeyword(n) == kind(n) = "Keyword"
IsPositional(n) == kind(n) # "Keyword"
call_args(call) == SelectSeq(field(call, "args"), IsPositional)
call_nargs(call) == SelectSeq(field(call, "args"), IsKeyword)

\* the receiver bound to the implicit first parameter
receiver(c, funcnode) ==
  IF c.boundnode # NoneV THEN c.boundnode ELSE NodeV(frame(parent(funcnode)))

\* a faulty order that tries the positional argument before the keyword
argument_source_positional_first(call, funcnode, name, c) ==
  LET nargs == call_nargs(call)
      args == call_args(call)
      argindex == find_argname(field(funcnode, "args")[1], name)
  IN IF argindex = 0 /\ functype(funcnode) = "method"
       THEN [from |-> "receiver", node |-> 0]
     ELSE IF argindex # -1 /\ argindex < Len(args)
       THEN [from |-> "positional", node |-> args[argindex + 1]]
     ELSE IF \E i \in DOMAIN nargs : T[nargs[i]].name = name
       THEN [from |-> "keyword",
             node |-> field(CHOOSE k \in {nargs[i] : i \in DOMAIN nargs} :
                              T[k].name = name, "value")[1]]
     ELSE IF default_value(field(funcnode, "args")[1], name) # 0
       THEN [from |-> "default",
             node |-> default_value(field(funcnode, "args")[1], name)]
     ELSE [from |-> "none", node |-> 0]

\* the source of a parameter's value, in the order infer_argument tries them
argument_source(call, funcnode, name, c) ==
  LET nargs == call_nargs(call)
      args == call_args(call)
      argindex == find_argname(field(funcnode, "args")[1], name)
  IN IF \E i \in DOMAIN nargs : T[nargs[i]].name = name
       THEN [from |-> "keyword",
             node |-> field(CHOOSE k \in {nargs[i] : i \in DOMAIN nargs} :
                              T[k].name = name, "value")[1]]
     ELSE IF argindex = 0 /\ functype(funcnode) = "method"
       THEN [from |-> "receiver", node |-> 0]
     ELSE IF argindex # -1 /\ argindex < Len(args)
       THEN [from |-> "positional", node |-> args[argindex + 1]]
     ELSE IF argindex # -1 /\ field(call, "starargs") # << >>
       THEN [from |-> "starargs", node |-> field(call, "starargs")[1]]
     ELSE IF default_value(field(funcnode, "args")[1], name) # 0
       THEN [from |-> "default",
             node |-> default_value(field(funcnode, "args")[1], name)]
     ELSE [from |-> "none", node |-> 0]

\* infer_argument, lines 126-134: what one inferred value of the star
\* argument adds to `its`
star_contribution(infered, argindex) ==
  IF infered = YES THEN << YES >>
  ELSE LET item == getitem(infered, const_factory(TypeCode.int, argindex))
       IN IF item.r = "value" THEN << item.v >>
          ELSE IF item.r \in {"InferenceError", "AttributeError"} THEN << YES >>
          ELSE << >>

\* chain(*its) from its[i] on
chain_from(S, g, i) ==
  LET G == S.gens[g]
  IN IF i > Len(G.lst) THEN Stop(S, g)
     ELSE IF G.lst[i] = YES
       THEN Yield(SetGen(S, g, [G EXCEPT !.pc = "chained", !.i = i]), g, YES)
     ELSE Spawn(SetGen(S, g, [G EXCEPT !.pc = "chain", !.i = i, !.sub = NextGen(S)]),
                infer(G.lst[i], G.ctx, g))

\* infer_argument, lines 137-160, for a call without double-star argument
\* and a function without catch-all parameters
after_starargs(S, g) ==
  LET G == S.gens[g]
      dflt == default_value(field(G.frm, "args")[1], G.s)
  IN IF dflt # 0
       THEN Spawn(SetGen(S, g, [G EXCEPT !.pc = "fwd", !.sub = NextGen(S)]),
                  infer(NodeV(dflt), G.ctx, g))
       ELSE Raise(S, g, "InferenceError")

\* CallContext.infer_argument(funcnode, name, context); with a star
\* argument lst is `its` and c2 counts the inferred values of the argument
do_infer_argument(S) ==
  LET g == S.cur
      G == S.gens[g]
      c == S.ctxs[G.ctx]
      src == argument_source(G.v.n, G.frm, G.s, c)
  IN CASE G.pc = "start" /\ src.from = "receiver" ->
            Yield(SetGen(S, g, [G EXCEPT !.pc = "end"]), g,
                  Instance(receiver(c, G.frm)))
       [] G.pc = "start" /\ src.from = "none" -> Raise(S, g, "InferenceError")
       [] G.pc = "start" /\ src.from \in {"keyword", "positional", "default"} ->
            Spawn(SetGen(S, g, [G EXCEPT !.pc = "fwd", !.sub = NextGen(S)]),
                  infer(NodeV(src.node), G.ctx, g))
       [] G.pc = "start" /\ src.from = "starargs" ->
            Spawn(SetGen(S, g, [G EXCEPT !.pc = "star", !.sub = NextGen(S),
                                         !.lst = << >>, !.c2 = 0]),
                  infer(NodeV(src.node), G.ctx, g))
       [] G.pc = "star" /\ S.ev.k = "yield" ->
            Resume(SetGen(S, g,
                     [G EXCEPT !.c2 = @ + 1,
                               !.lst = @ \o star_contribution(S.ev.v,
                                          find_argname(field(G.frm, "args")[1], G.s))]),
                   G.sub)
       [] G.pc = "star" /\ S.ev.k = "stop" ->
            IF G.lst # << >> THEN chain_from(S, g, 1) ELSE after_starargs(S, g)
       [] G.pc = "star" /\ S.ev.k = "raise" -> Raise(S, g, S.ev.e)
       [] G.pc = "chained" -> chain_from(S, g, G.i + 1)
       [] G.pc = "chain" /\ S.ev.k = "yield" -> Yield(S, g, S.ev.v)
       [] G.pc = "chain" /\ S.ev.k = "run" -> Resume(S, G.sub)
       [] G.pc = "chain" /\ S.ev.k = "stop" -> chain_from(S, g, G.i + 1)
       [] G.pc = "chain" /\ S.ev.k = "raise" -> Raise(S, g, S.ev.e)
       [] G.pc = "end" -> Stop(S, g)
       [] G.pc = "fwd" -> Forward(S, g)

\* values exposing a call-result rule
has_infer_call_result(v) ==
  \/ v.k = "BoundMethod"
  \/ v.k = "node" /\ kind(v.n) \in {"ClassDef", "FunctionDef"}

\* infer_callfunc: the results of calling every inferred callee
do_infer_callfunc(S) ==
  LET g == S.cur
      G == S.gens[g]
      e == S.ev
  IN CASE G.pc = "start" ->
            Spawn(SetGen(AddCtx(S, [clone(S.ctxs[G.ctx]) EXCEPT !.callcontext = G.v.n]),
                         g, [G EXCEPT !.pc = "callee", !.c2 = NextCtx(S),
                                      !.sub2 = NextGen(S)]),
                  infer(NodeV(field(G.v.n, "func")[1]), NextCtx(S), g))
       [] G.pc = "callee" /\ e.k = "yield" ->
            IF e.v = YES THEN Yield(S, g, YES)
            ELSE IF has_infer_call_result(e.v)
              THEN Spawn(SetGen(S, g, [G EXCEPT !.pc = "result", !.sub = NextGen(S)]),
                         Gen("infer_call_result", e.v, G.c2, g, "", << >>, G.v.n))
              ELSE Resume(S, G.sub2)
       [] G.pc = "callee" /\ e.k = "run" -> Resume(S, G.sub2)
       [] G.pc = "callee" /\ e.k = "stop" -> Stop(S, g)
       [] G.pc = "callee" /\ e.k = "raise" -> Raise(S, g, e.e)
       [] G.pc = "result" /\ e.k = "yield" -> Yield(S, g, e.v)
       [] G.pc = "result" /\ e.k = "run" -> Resume(S, G.sub)
       [] G.pc = "result" /\ e.k = "stop" ->
            Resume(SetGen(S, g, [G EXCEPT !.pc = "callee"]), G.sub2)
       [] G.pc = "result" /\ e.k = "raise" ->
            IF IsInferenceError(e.e)
              THEN Resume(SetGen(S, g, [G EXCEPT !.pc = "callee"]), G.sub2)
              ELSE Raise(S, g, e.e)

\* the Return nodes of function f, nested functions and classes skipped
RECURSIVE returns_from(_, _)
returns_from(f, i) ==
  IF i > Len(T) THEN << >>
  ELSE IF kind(i) = "Return" /\ frame(i) = f
    THEN << NodeV(i) >> \o returns_from(f, i + 1)
    ELSE returns_from(f, i + 1)

\* FunctionDef.infer_call_result: the loop over the Return nodes from G.i on
call_result_from(S, g, i) ==
  LET G == S.gens[g]
  IN IF i > Len(G.lst) THEN Stop(S, g)
     ELSE IF field(G.lst[i].n, "value") = << >>
       THEN Yield(SetGen(S, g, [G EXCEPT !.pc = "next", !.i = i + 1]), g, ConstNone)
     ELSE Spawn(SetGen(S, g, [G EXCEPT !.pc = "iter", !.i = i, !.sub = NextGen(S)]),
                infer(NodeV(field(G.lst[i].n, "value")[1]), G.c2, g))

\* callee.infer_call_result(caller, context)
do_infer_call_result(S) ==
  LET g == S.cur
      G == S.gens[g]
      e == S.ev
  IN CASE G.pc = "start" /\ G.v.k = "node" /\ kind(G.v.n) = "ClassDef" ->
            Yield(SetGen(S, g, [G EXCEPT !.pc = "end"]), g, Instance(G.v))
       [] G.pc = "start" /\ G.v.k = "node" /\ kind(G.v.n) = "FunctionDef" ->
            call_result_from(
              SetGen(S, g, [G EXCEPT !.c2 = G.ctx, !.lst = returns_from(G.v.n, 1)]),
              g, 1)
       [] G.pc = "start" /\ G.v.k = "BoundMethod" ->
            call_result_from(
              SetGen(AddCtx(S, [clone(S.ctxs[G.ctx]) EXCEPT !.boundnode = bound(G.v)]),
                     g, [G EXCEPT !.c2 = NextCtx(S), !.lst = returns_from(G.v.f, 1)]),
              g, 1)
       [] G.pc = "end" -> Stop(S, g)
       [] G.pc = "next" -> call_result_from(S, g, G.i)
       [] G.pc = "iter" /\ e.k = "yield" -> Yield(S, g, e.v)
       [] G.pc = "iter" /\ e.k = "run" -> Resume(S, G.sub)
       [] G.pc = "iter" /\ e.k = "stop" -> call_result_from(S, g, G.i + 1)
       [] G.pc = "iter" /\ e.k = "raise" ->
            IF IsInferenceError(e.e)
              THEN Yield(SetGen(S, g, [G EXCEPT !.pc = "next", !.i = G.i + 1]), g, YES)
              ELSE Raise(S, g, e.e)

\* a faulty infer_getattr without the except clauses of lines 273 to 277: the
\* failure of one owner ends the whole access
do_infer_getattr_aborting(S) ==
  LET g == S.cur
      G == S.gens[g]
      e == S.ev
  IN CASE G.pc = "start" ->
            Spawn(SetGen(S, g, [G EXCEPT !.pc = "owner", !.sub2 = NextGen(S)]),
                  infer(NodeV(field(G.v.n, "expr")[1]), G.ctx, g))
       [] G.pc = "owner" /\ e.k = "yield" ->
            IF e.v = YES THEN Yield(S, g, YES)
            ELSE Spawn(SetGen([S EXCEPT !.ctxs[G.ctx].boundnode = e.v], g,
                              [G EXCEPT !.pc = "attr", !.sub = NextGen(S)]),
                       Gen("igetattr", e.v, G.ctx, g, T[G.v.n].name, << >>, 0))
       [] G.pc = "owner" /\ e.k = "run" -> Resume(S, G.sub2)
       [] G.pc = "owner" /\ e.k = "stop" -> Stop(S, g)
       [] G.pc = "owner" /\ e.k = "raise" -> Raise(S, g, e.e)
       [] G.pc = "attr" /\ e.k = "yield" -> Yield(S, g, e.v)
       [] G.pc = "attr" /\ e.k = "run" -> Resume(S, G.sub)
       [] G.pc = "attr" /\ e.k = "stop" ->
            Resume(SetGen([S EXCEPT !.ctxs[G.ctx].boundnode = NoneV], g,
                          [G EXCEPT !.pc = "owner"]), G.sub2)
       [] G.pc = "attr" /\ e.k = "raise" ->
            Raise(S, g, e.e)

\* infer_getattr: the attribute on every inferred owner
do_infer_getattr(S) ==
  LET g == S.cur
      G == S.gens[g]
      e == S.ev
  IN CASE G.pc = "start" ->
            Spawn(SetGen(S, g, [G EXCEPT !.pc = "owner", !.sub2 = NextGen(S)]),
                  infer(NodeV(field(G.v.n, "expr")[1]), G.ctx, g))
       [] G.pc = "owner" /\ e.k = "yield" ->
            IF e.v = YES THEN Yield(S, g, YES)
            ELSE Spawn(SetGen([S EXCEPT !.ctxs[G.ctx].boundnode = e.v], g,
                              [G EXCEPT !.pc = "attr", !.sub = NextGen(S)]),
                       Gen("igetattr", e.v, G.ctx, g, T[G.v.n].name, << >>, 0))
       [] G.pc = "owner" /\ e.k = "run" -> Resume(S, G.sub2)
       [] G.pc = "owner" /\ e.k = "stop" -> Stop(S, g)
       [] G.pc = "owner" /\ e.k = "raise" -> Raise(S, g, e.e)
       [] G.pc = "attr" /\ e.k = "yield" -> Yield(S, g, e.v)
       [] G.pc = "attr" /\ e.k = "run" -> Resume(S, G.sub)
       [] G.pc = "attr" /\ e.k = "stop" ->
            Resume(SetGen([S EXCEPT !.ctxs[G.ctx].boundnode = NoneV], g,
                          [G EXCEPT !.pc = "owner"]), G.sub2)
       [] G.pc = "attr" /\ e.k = "raise" ->
            IF e.e \in {"NotFoundError", "InferenceError", "UnresolvableName",
                        "AttributeError"}
              THEN Resume(SetGen(S, g, [G EXCEPT !.pc = "owner"]), G.sub2)
              ELSE Raise(S, g, e.e)

\* the class whose locals hold the attributes of owner v, 0 when it has none
attr_class(v) ==
  IF v.k = "Instance" /\ v.w = 1 THEN v.n
  ELSE IF v.k = "node" /\ kind(v.n) \in {"ClassDef", "Module"} THEN v.n
  ELSE 0

\* owner.igetattr(name, context): inference of the owner's bindings of name,
\* methods found through an instance are bound to it
do_igetattr(S) ==
  LET g == S.cur
      G == S.gens[g]
      e == S.ev
      attrs == IF attr_class(G.v) = 0 THEN << >> ELSE locals(attr_class(G.v), G.s)
  IN CASE G.pc = "start" /\ attrs = << >> -> Raise(S, g, "NotFoundError")
       [] G.pc = "start" /\ attrs # << >> ->
            Spawn(SetGen(S, g, [G EXCEPT !.pc = "fwd", !.sub = NextGen(S)]),
                  Gen("_infer_stmts", NoneV, G.ctx, g, "", node_values(attrs),
                      attr_class(G.v)))
       [] G.pc = "fwd" /\ e.k = "yield" ->
            IF /\ G.v.k = "Instance" /\ e.v.k = "node"
               /\ kind(e.v.n) = "FunctionDef" /\ functype(e.v.n) = "method"
              THEN Yield(S, g, BoundMethod(e.v.n, G.v))
              ELSE Yield(S, g, e.v)
       [] G.pc = "fwd" /\ e.k # "yield" -> Forward(S, g)


(***************************************************************************)
(* Operators                                                               *)
(***************************************************************************)
UNARY_OP_METHOD ==
  [op \in {"+", "-", "not"} |->
     CASE op = "+" -> "__pos__" [] op = "-" -> "__neg__" [] op = "not" -> ""]
BIN_OP_METHOD ==
  [op \in {"+", "-", "/", "//", "*", "**", "%", "&", "|", "^", "<<", ">>"} |->
     CASE op = "+" -> "__add__" [] op = "-" -> "__sub__" [] op = "/" -> "__div__"
       [] op = "//" -> "__floordiv__" [] op = "*" -> "__mul__"
       [] op = "**" -> "__power__" [] op = "%" -> "__mod__" [] op = "&" -> "__and__"
       [] op = "|" -> "__or__" [] op = "^" -> "__xor__" [] op = "<<" -> "__lshift__"
       [] op = ">>" -> "__rshift__"]

\* operand.infer_unary_op(op): constants apply the operator to their value,
\* the Unknown sentinel answers every request with itself, other values
\* have no such method
infer_unary_op(operand, op) ==
  IF operand = YES THEN Returned(YES)
  ELSE IF ~IsConst(operand) THEN Raised("AttributeError")
  ELSE IF op = "not"
    THEN Returned(const_factory(TypeCode.bool,
                                IF const_value(operand) = 0
                                  THEN 1 ELSE 0))
  ELSE IF const_type(operand) \notin {TypeCode.int, TypeCode.bool} THEN Raised("TypeError")
  ELSE Returned(const_factory(TypeCode.int,
                  CASE op = "+" -> const_value(operand)
                    [] op = "-" -> 0 - const_value(operand)
                    [] OTHER -> 0 - const_value(operand) - 1))

\* operand.getattr(name) finds a binding: the attributes of an instance are
\* looked for in its class
has_attr(operand, name) ==
  attr_class(operand) # 0 /\ locals(attr_class(operand), name) # << >>

\* infer_unaryop(self, context)
do_infer_unaryop(S) ==
  LET g == S.cur
      G == S.gens[g]
      e == S.ev
      op == T[G.v.n].name
      res == infer_unary_op(e.v, op)
  IN CASE G.pc = "start" ->
            Spawn(SetGen(S, g, [G EXCEPT !.pc = "iter", !.sub = NextGen(S)]),
                  infer(NodeV(field(G.v.n, "operand")[1]), G.ctx, g))
       [] G.pc = "iter" /\ e.k = "yield" ->
            IF res.r = "value" THEN Yield(S, g, res.v)
            ELSE IF res.r = "TypeError" THEN Resume(S, G.sub)
            ELSE IF op \notin DOMAIN UNARY_OP_METHOD THEN Raise(S, g, "KeyError")
            ELSE IF UNARY_OP_METHOD[op] = "" THEN Yield(S, g, YES)
            ELSE IF has_attr(e.v, UNARY_OP_METHOD[op]) THEN Yield(S, g, e.v)
            ELSE Yield(S, g, YES)
       [] G.pc = "iter" /\ e.k = "run" -> Resume(S, G.sub)
       [] G.pc = "iter" /\ e.k = "stop" -> Stop(S, g)
       [] G.pc = "iter" /\ e.k = "raise" -> Raise(S, g, e.e)

\* impl(self.value, other.value) of two constants
const_binary(a, b, op) ==
  IF /\ const_type(a) \in {TypeCode.int, TypeCode.bool}
     /\ const_type(b) \in {TypeCode.int, TypeCode.bool}
     /\ op \in {"+", "-", "*"}
    THEN Returned(const_factory(TypeCode.int,
                    CASE op = "+" -> const_value(a) + const_value(b)
                      [] op = "-" -> const_value(a) - const_value(b)
                      [] op = "*" -> const_value(a) * const_value(b)))
  ELSE IF const_type(a) = TypeCode.str /\ const_type(b) = TypeCode.str /\ op = "+"
    THEN Returned(const_factory(TypeCode.str, const_value(a) + const_value(b)))
  ELSE IF {const_type(a), const_type(b)} = {TypeCode.str, TypeCode.int} /\ op = "*"
    THEN Returned(const_factory(TypeCode.str,
                                IF const_value(a) < 0 \/ const_value(b) < 0
                                  THEN 0 ELSE const_value(a) * const_value(b)))
  ELSE Raised("TypeError")

\* Const.infer_binary_op(operator, other, context): the operator applied to
\* the constant and every inferred constant value of other
do_infer_binary_op(S) ==
  LET g == S.cur
      G == S.gens[g]
      e == S.ev
  IN CASE G.pc = "start" ->
            Spawn(SetGen(S, g, [G EXCEPT !.pc = "iter", !.sub = NextGen(S)]),
                  infer(G.lst[1], G.ctx, g))
       [] G.pc = "iter" /\ e.k = "yield" ->
            IF IsConst(e.v)
              THEN IF const_binary(G.v, e.v, G.s).r = "value"
                     THEN Yield(S, g, const_binary(G.v, e.v, G.s).v)
                     ELSE Resume(S, G.sub)
              ELSE Yield(S, g, YES)
       [] G.pc = "iter" /\ e.k = "run" -> Resume(S, G.sub)
       [] G.pc = "iter" /\ e.k = "stop" -> Stop(S, g)
       [] G.pc = "iter" /\ e.k = "raise" -> Raise(S, g, e.e)

\* _infer_binop, lines 364-373: operand1 has no infer_binary_op
binop_fallback(S, g) ==
  LET G == S.gens[g]
  IN IF G.s \in DOMAIN BIN_OP_METHOD /\ has_attr(G.v, BIN_OP_METHOD[G.s])
       THEN Yield(SetGen(S, g, [G EXCEPT !.pc = "yield368"]), g, G.v)
     ELSE IF G.flag
       THEN Yield(SetGen(S, g, [G EXCEPT !.pc = "yield371"]), g, YES)
     ELSE Stop([S EXCEPT !.gens[G.par].lst = Append(@, G.v)], g)

\* _infer_binop, line 361: operand1.infer_binary_op(operator, operand2,
\* context); constants are the values with that method
binop_resolve(S, g) ==
  LET G == S.gens[g]
  IN IF G.v = YES
       THEN Raise(SetGen(S, g, [G EXCEPT !.pc = "line361"]), g, "TypeError")
     ELSE IF IsConst(G.v)
       THEN Spawn(SetGen(S, g, [G EXCEPT !.pc = "iter", !.sub = NextGen(S)]),
                  Gen("infer_binary_op", G.v, G.ctx, g, G.s, G.lst, 0))
     ELSE binop_fallback(S, g)

\* _infer_binop(operator, operand1, operand2, context, failures): v is
\* operand1, s the operator, lst holds operand2, flag is `failures is None`
do__infer_binop(S) ==
  LET g == S.cur
      G == S.gens[g]
      e == S.ev
  IN CASE G.pc = "start" /\ G.v = YES ->
            Yield(SetGen(S, g, [G EXCEPT !.pc = "yield359"]), g, YES)
       [] G.pc = "start" /\ G.v # YES -> binop_resolve(S, g)
       [] G.pc = "yield359" -> binop_resolve(S, g)
       [] G.pc = "iter" /\ e.k = "yield" -> Yield(S, g, e.v)
       [] G.pc = "iter" /\ e.k = "run" -> Resume(S, G.sub)
       [] G.pc = "iter" /\ e.k = "stop" -> Stop(S, g)
       [] G.pc = "iter" /\ e.k = "raise" ->
            IF e.e = "AttributeError" THEN binop_fallback(S, g) ELSE Raise(S, g, e.e)
       [] G.pc \in {"yield368", "yield371"} -> Stop(S, g)

\* infer_binop, lines 380-383: the loop over the failures from failure i on
binop_failures_from(S, g, i) ==
  LET G == S.gens[g]
  IN IF i > Len(G.lst) THEN Stop(S, g)
     ELSE Spawn(SetGen(S, g, [G EXCEPT !.pc = "right", !.i = i, !.sub2 = NextGen(S)]),
                infer(NodeV(field(G.v.n, "right")[1]), G.ctx, g))

\* infer_binop(self, context): lst is the failures list
do_infer_binop(S) ==
  LET g == S.cur
      G == S.gens[g]
      e == S.ev
      op == T[G.v.n].name
  IN CASE G.pc = "start" ->
            Spawn(SetGen(S, g, [G EXCEPT !.pc = "left", !.sub2 = NextGen(S)]),
                  infer(NodeV(field(G.v.n, "left")[1]), G.ctx, g))
       [] G.pc = "left" /\ e.k = "yield" ->
            Spawn(SetGen(S, g, [G EXCEPT !.pc = "val", !.sub = NextGen(S)]),
                  Gen("_infer_binop", e.v, G.ctx, g, op,
                      << NodeV(field(G.v.n, "right")[1]) >>, 0))
       [] G.pc = "left" /\ e.k = "run" -> Resume(S, G.sub2)
       [] G.pc = "left" /\ e.k = "stop" -> binop_failures_from(S, g, 1)
       [] G.pc = "left" /\ e.k = "raise" -> Raise(S, g, e.e)
       [] G.pc = "val" /\ e.k = "yield" -> Yield(S, g, e.v)
       [] G.pc = "val" /\ e.k = "run" -> Resume(S, G.sub)
       [] G.pc = "val" /\ e.k = "stop" ->
            Resume(SetGen(S, g, [G EXCEPT !.pc = "left"]), G.sub2)
       [] G.pc = "val" /\ e.k = "raise" -> Raise(S, g, e.e)
       [] G.pc = "right" /\ e.k = "yield" ->
            Spawn(SetGen(S, g, [G EXCEPT !.pc = "val2", !.sub = NextGen(S)]),
                  [Gen("_infer_binop", e.v, G.ctx, g, op, << G.lst[G.i] >>, 0)
                     EXCEPT !.flag = TRUE])
       [] G.pc = "right" /\ e.k = "run" -> Resume(S, G.sub2)
       [] G.pc = "right" /\ e.k = "stop" -> binop_failures_from(S, g, G.i + 1)
       [] G.pc = "right" /\ e.k = "raise" -> Raise(S, g, e.e)
       [] G.pc = "val2" /\ e.k = "yield" -> Yield(S, g, e.v)
       [] G.pc = "val2" /\ e.k = "run" -> Resume(S, G.sub)
       [] G.pc = "val2" /\ e.k = "stop" ->
            Resume(SetGen(S, g, [G EXCEPT !.pc = "right"]), G.sub2)
       [] G.pc = "val2" /\ e.k = "raise" -> Raise(S, g, e.e)

(***************************************************************************)
(* Closing an abandoned sequence: GeneratorExit is raised at the yield     *)
(* every suspended generator of the request is stopped at                  *)
(***************************************************************************)
Closed == [k |-> "closed", v |-> NoneV, e |-> ""]

\* generator g meets GeneratorExit at its yield: a cycle guard releases its
\* path entry, the bare except of _infer_binop (line 369) takes the exit for
\* a failure of line 367-368, every other rule lets it through
close_one(S, g) ==
  LET G == S.gens[g]
  IN IF G.rule = "path_wrapper" /\ G.pc = "iter"
       THEN Finished([S EXCEPT !.path = pop(@)], g)
     ELSE IF G.rule = "_infer_binop" /\ G.pc = "yield368"
       THEN IF G.flag
              THEN [Finished(S, g) EXCEPT !.ev = [k |-> "yield", v |-> YES, e |-> ""]]
              ELSE Finished([S EXCEPT !.gens[G.par].lst = Append(@, G.v)], g)
     ELSE Finished(S, g)

\* every generator from g on that has not run to its end is closed
RECURSIVE close_from(_, _)
close_from(S, g) ==
  IF g > Len(S.gens) THEN S
  ELSE IF S.gens[g].done THEN close_from(S, g + 1)
  ELSE close_from(close_one(S, g), g + 1)

(***************************************************************************)
(* Subscripts                                                              *)
(***************************************************************************)
\* infer_subscript, lines 296-308: index is the first inferred value of the
\* subscript; the sequence it was taken from is dropped
subscript_index(S, g, idx) ==
  LET G == S.gens[g]
      item == IF IsConst(idx)
                THEN getitem(NodeV(field(G.v.n, "expr")[1]), idx)
                ELSE Raised("AttributeError")
  IN IF idx = YES
       THEN Yield(SetGen(S, g, [G EXCEPT !.pc = "end"]), g, YES)
     ELSE IF item.r = "AttributeError" THEN Raise(S, g, "InferenceError")
     ELSE IF item.r \in {"IndexError", "TypeError"}
       THEN Yield(SetGen(S, g, [G EXCEPT !.pc = "end"]), g, YES)
     ELSE Spawn(SetGen(S, g, [G EXCEPT !.pc = "fwd", !.sub = NextGen(S)]),
                infer(item.v, G.ctx, g))

\* infer_subscript(self, context)
do_infer_subscript(S) ==
  LET g == S.cur
      G == S.gens[g]
      e == S.ev
  IN CASE G.pc = "start" /\ Len(field(G.v.n, "subs")) # 1 ->
            Raise(S, g, "InferenceError")
       [] G.pc = "start" /\ Len(field(G.v.n, "subs")) = 1 ->
            Spawn(SetGen(S, g, [G EXCEPT !.pc = "index", !.sub = NextGen(S)]),
                  infer(NodeV(field(G.v.n, "subs")[1]), G.ctx, g))
       [] G.pc = "index" /\ e.k = "yield" ->
            subscript_index([close_from(S, G.sub) EXCEPT !.ev = e], g, e.v)
       [] G.pc = "index" /\ e.k = "stop" -> Stop(S, g)
       [] G.pc = "index" /\ e.k = "raise" -> Raise(S, g, e.e)
       [] G.pc = "end" -> Stop(S, g)
       [] G.pc = "fwd" -> Forward(S, g)
(***************************************************************************)
(* The inference request: one top-level node.infer() consumed to its end   *)
(***************************************************************************)
MaxGens == 40
MaxSteps == 150

\* the source units whose constructs all have a modelled inference rule
InferUnits == Programs \ {Branches}

St == [gens |-> gens, ctxs |-> ctxs, path |-> path, cur |-> cur, ev |-> ev]

Init ==
  /\ T \in InferUnits
  /\ fn = Idle
  /\ target \in DOMAIN T
  /\ ctxs = << InferenceContext >>
  /\ gens = << infer(NodeV(target), 1, 0) >>
  /\ path = << >>
  /\ cur = 1
  /\ ev = EvRun
  /\ out = << >>
  /\ status = "running"
  /\ steps = 0
  /\ err = ""
  /\ NoBuild

\* install the state a rule's step leads to
Apply(S) ==
  /\ steps' = steps + 1
  /\ IF Len(S.gens) > MaxGens \/ steps >= MaxSteps
       THEN /\ status' = "overflow"
            /\ UNCHANGED << gens, ctxs, path, cur, ev >>
       ELSE /\ gens' = S.gens
            /\ ctxs' = S.ctxs
            /\ path' = S.path
            /\ cur' = S.cur
            /\ ev' = S.ev
            /\ status' = status
  /\ UNCHANGED << T, fn, target, out, err, bvars >>

Running(rule) == status = "running" /\ cur # 0 /\ gens[cur].rule = rule

path_wrapper == Running("path_wrapper") /\ Apply(do_path_wrapper(St))
raise_if_nothing_infered ==
  Running("raise_if_nothing_infered") /\ Apply(do_raise_if_nothing_infered(St))
infer_default == Running("infer_default") /\ Apply(do_infer_default(St))
infer_end == Running("infer_end") /\ Apply(do_infer_end(St))
infer_name == Running("infer_name") /\ Apply(do_infer_name(St))
infer_stmts == Running("_infer_stmts") /\ Apply(do_infer_stmts(St))
infer_ass == Running("infer_ass") /\ Apply(do_infer_ass(St))
assigned_stmts == Running("assigned_stmts") /\ Apply(do_assigned_stmts(St))
arguments_infer_argname ==
  Running("_arguments_infer_argname") /\ Apply(do_arguments_infer_argname(St))
infer_argument == Running("infer_argument") /\ Apply(do_infer_argument(St))
infer_callfunc == Running("infer_callfunc") /\ Apply(do_infer_callfunc(St))
infer_call_result == Running("infer_call_result") /\ Apply(do_infer_call_result(St))
infer_getattr == Running("infer_getattr") /\ Apply(do_infer_getattr(St))
igetattr == Running("igetattr") /\ Apply(do_igetattr(St))

\* the top-level caller takes a value and asks for the next one
Consume ==
  /\ status = "running" /\ cur = 0 /\ ev.k = "yield"
  /\ out' = Append(out, ev.v)
  /\ cur' = 1
  /\ ev' = EvRun
  /\ steps' = steps + 1
  /\ UNCHANGED << T, fn, target, gens, ctxs, path, status, err, bvars >>

\* the sequence is exhausted
Finish ==
  /\ status = "running" /\ cur = 0 /\ ev.k = "stop"
  /\ status' = "done"
  /\ steps' = steps + 1
  /\ UNCHANGED << T, fn, target, gens, ctxs, path, cur, ev, out, err, bvars >>

\* an error leaves the top-level infer call
Fail ==
  /\ status = "running" /\ cur = 0 /\ ev.k = "raise"
  /\ status' = "failed"
  /\ err' = ev.e
  /\ steps' = steps + 1
  /\ UNCHANGED << T, fn, target, gens, ctxs, path, cur, ev, out, bvars >>

Next ==
  \/ path_wrapper
  \/ raise_if_nothing_infered
  \/ infer_default
  \/ infer_end
  \/ infer_name
  \/ infer_stmts
  \/ infer_ass
  \/ assigned_stmts
  \/ arguments_infer_argname
  \/ infer_argument
  \/ infer_callfunc
  \/ infer_call_result
  \/ infer_getattr
  \/ igetattr
  \/ Consume
  \/ Finish
  \/ Fail

Spec == Init /\ [][Next]_vars
\* a running request executes another step
Execute == status = "running" /\ steps' = steps + 1
\* the interpreter keeps executing a running request; every step of Next
\* taken by a running request is a step of Execute
SpecLive == Spec /\ WF_steps(Execute)

(***************************************************************************)
(* The post-build attribute pass (src/astroid/builder.py)                  *)
(***************************************************************************)
\* the source units with attribute assignments
AttributeUnits == { InitFirst, InitLast, TwoClasses }

\* node.get_children(): the child nodes of node, in field order
RECURSIVE get_children_from(_, _)
get_children_from(node, i) ==
  IF i > Len(T) THEN << >>
  ELSE IF parent(i) = node THEN << i >> \o get_children_from(node, i + 1)
  ELSE get_children_from(node, i + 1)
get_children(node) == get_children_from(node, 1)

\* the attribute names assigned somewhere in the unit
AttrNames == {T[n].name : n \in {m \in Nodes : kind(m) = "AssignAttr"}}
\* a defaultdict(list) per owner: no binding recorded yet
NoAttrs == [k \in Nodes \X AttrNames |-> << >>]

\* node.expr.infer() for the owner expression of an AssignAttr: the receiver
\* parameter of a method is an Instance of its class, a name bound by class
\* or function statements is those statements
infer_owner(expr) ==
  IF kind(expr) # "Name" THEN << >>
  ELSE LET f == frame(expr)
       IN IF /\ kind(f) = "FunctionDef"
             /\ functype(f) = "method"
             /\ find_argname(field(f, "args")[1], T[expr].name) = 0
            THEN << Instance(NodeV(frame(parent(f)))) >>
            ELSE LET IsEnd(n) == kind(n) \in {"ClassDef", "FunctionDef"}
                 IN node_values(SelectSeq(lookup(expr, T[expr].name).stmts, IsEnd))

\* values.insert(0, node) / values.append(node), unless node is in values
record_binding(values, node) ==
  IF \E i \in DOMAIN values : values[i] = node THEN values
  ELSE IF /\ values # << >>
          /\ T[frame(node)].name = "__init__"
          /\ T[frame(values[1])].name # "__init__"
    THEN << node >> \o values
    ELSE Append(values, node)

\* the loop over the inferred owners of AssignAttr node, from owner i on
RECURSIVE record_owners(_, _, _, _)
record_owners(node, owners, i, maps) ==
  IF i > Len(owners) THEN maps
  ELSE LET inferred == owners[i]
           key == << inferred.n, T[node].name >>
       IN IF inferred.k = "Instance" \/ (inferred.k = "node" /\ kind(inferred.n) = "FunctionDef")
            THEN record_owners(node, owners, i + 1,
                   [maps EXCEPT !.instance_attrs[key] = record_binding(@, node)])
          ELSE IF inferred.k = "node" /\ kind(inferred.n) \in {"Module", "ClassDef"}
            THEN record_owners(node, owners, i + 1,
                   [maps EXCEPT !.external_attrs[key] = record_binding(@, node)])
          ELSE record_owners(node, owners, i + 1, maps)

InitAttrs ==
  /\ T \in AttributeUnits \cup Programs
  /\ fn = Idle
  /\ target = 0
  /\ gens = << >>
  /\ ctxs = << >>
  /\ path = << >>
  /\ cur = 0
  /\ ev = [k |-> "none", v |-> NoneV, e |-> ""]
  /\ out = << >>
  /\ status = "idle"
  /\ steps = 0
  /\ err = ""
  /\ stack = << 1 >>
  /\ instance_attrs = NoAttrs
  /\ external_attrs = NoAttrs
  /\ cache = {}
  /\ built = << >>
  /\ calls = << >>
  /\ units = << >>

\* delayed_assignments(root): one turn of the loop over the stack
delayed_assignments ==
  /\ stack # << >>
  /\ LET node == stack[Len(stack)]
         maps == [instance_attrs |-> instance_attrs, external_attrs |-> external_attrs]
         new == IF kind(node) = "AssignAttr"
                  THEN record_owners(node, infer_owner(field(node, "expr")[1]), 1, maps)
                  ELSE maps
     IN /\ stack' = SubSeq(stack, 1, Len(stack) - 1) \o get_children(node)
        /\ instance_attrs' = new.instance_attrs
        /\ external_attrs' = new.external_attrs
  /\ UNCHANGED << T, fn, target, gens, ctxs, path, cur, ev, out, status, steps, err,
                  cache, built, calls, units >>

SpecAttrs == InitAttrs /\ [][delayed_assignments]_vars

(***************************************************************************)
(* Building units and the unit cache (src/astroid/builder.py,              *)
(* src/raw_building.py, src/inference.py)                                  *)
(***************************************************************************)
UnitNames == {"a", "b", "c"}
MaxCalls == 4

\* a faulty _post_build that registers the module last
post_build_cache_last == << "delayed_assignments", "visit_transforms", "cache_module" >>
\* AstroidBuilder._post_build, after _data_build built the tree
post_build == << "cache_module", "delayed_assignments", "visit_transforms" >>
\* InspectBuilder.inspect_build, after build_module built the node
inspect_build == << "cache_module", "object_build" >>

\* the steps that run inference, or build objects recursively, on the tree
InferenceSteps == {"delayed_assignments", "visit_transforms", "object_build"}

\* a build of unit u: the tree is built first, the remaining steps follow
Build(u) ==
  [unit |-> u,
   todo |-> << "build" >> \o (IF units[u].living THEN inspect_build ELSE post_build),
   imports |-> units[u].imports]
\* the step build b is at, "return" when it has none left
Now(b) == IF b.todo = << >> THEN "return" ELSE b.todo[1]
\* build b moves on to its next step, whose inference meets every import
Advance(b) == [b EXCEPT !.todo = Tail(@), !.imports = units[b.unit].imports]
Top == calls[Len(calls)]
SetTop(b) == [calls EXCEPT ![Len(calls)] = b]

InitBuild ==
  /\ T = << >>
  /\ fn = Idle
  /\ target = 0
  /\ gens = << >>
  /\ ctxs = << >>
  /\ path = << >>
  /\ cur = 0
  /\ ev = [k |-> "none", v |-> NoneV, e |-> ""]
  /\ out = << >>
  /\ status = "idle"
  /\ steps = 0
  /\ err = ""
  /\ stack = << >>
  /\ instance_attrs = << >>
  /\ external_attrs = << >>
  /\ cache = {}
  /\ built = [u \in UnitNames |-> 0]
  /\ calls = << >>
  /\ units \in [UnitNames -> [imports : SUBSET UnitNames, living : BOOLEAN]]

BuildUnchanged ==
  UNCHANGED << T, fn, target, gens, ctxs, path, cur, ev, out, status, steps, err,
               stack, instance_attrs, external_attrs, units >>

\* the manager is asked for a unit that is not in its cache
ast_from_module_name ==
  \E u \in UnitNames :
    /\ calls = << >>
    /\ u \notin cache
    /\ calls' = << Build(u) >>
    /\ UNCHANGED << cache, built >>
    /\ BuildUnchanged

\* _data_build / build_module: the unit's tree is built
data_build ==
  /\ calls # << >>
  /\ Now(Top) = "build"
  /\ built' = [built EXCEPT ![Top.unit] = @ + 1]
  /\ calls' = SetTop(Advance(Top))
  /\ UNCHANGED cache
  /\ BuildUnchanged

\* manager.cache_module(module) / MANAGER._cache[modname] = node
cache_module ==
  /\ calls # << >>
  /\ Now(Top) = "cache_module"
  /\ cache' = cache \cup {Top.unit}
  /\ calls' = SetTop(Advance(Top))
  /\ UNCHANGED built
  /\ BuildUnchanged

\* _imported_module_astng(node, modname), met by the inference of a step:
\* a unit importing itself fails, a cached unit is returned as it is, any
\* other unit is built
imported_module_astng ==
  \E v \in UnitNames :
    /\ calls # << >>
    /\ Now(Top) \in InferenceSteps
    /\ v \in Top.imports
    /\ LET met == SetTop([Top EXCEPT !.imports = @ \ {v}])
       IN IF v = Top.unit \/ v \in cache
            THEN calls' = met
            ELSE /\ Len(calls) < MaxCalls
                 /\ calls' = Append(met, Build(v))
    /\ UNCHANGED << cache, built >>
    /\ BuildUnchanged

\* the inference of a step is over
end_step ==
  /\ calls # << >>
  /\ Now(Top) \in InferenceSteps
  /\ calls' = SetTop(Advance(Top))
  /\ UNCHANGED << cache, built >>
  /\ BuildUnchanged

\* the build returns its module to the caller
build_return ==
  /\ calls # << >>
  /\ Now(Top) = "return"
  /\ calls' = SubSeq(calls, 1, Len(calls) - 1)
  /\ UNCHANGED << cache, built >>
  /\ BuildUnchanged

NextBuild ==
  \/ ast_from_module_name
  \/ data_build
  \/ cache_module
  \/ imported_module_astng
  \/ end_step
  \/ build_return

SpecBuild == InitBuild /\ [][NextBuild]_vars

(***************************************************************************)
(* Requests on operator expressions, and a consumer that stops early       *)
(***************************************************************************)
OperatorUnits == { UnaryOps, BinOps }

InitOperators ==
  /\ T \in InferUnits \cup OperatorUnits
  /\ fn = Idle
  /\ target \in DOMAIN T
  /\ ctxs = << InferenceContext >>
  /\ gens = << infer(NodeV(target), 1, 0) >>
  /\ path = << >>
  /\ cur = 1
  /\ ev = EvRun
  /\ out = << >>
  /\ status = "running"
  /\ steps = 0
  /\ err = ""
  /\ NoBuild

infer_unaryop == Running("infer_unaryop") /\ Apply(do_infer_unaryop(St))
infer_binop == Running("infer_binop") /\ Apply(do_infer_binop(St))
infer_binop_operand == Running("_infer_binop") /\ Apply(do__infer_binop(St))
infer_binary_op == Running("infer_binary_op") /\ Apply(do_infer_binary_op(St))

\* the top-level caller takes a value and drops the sequence: every
\* suspended generator of the request is closed
Abandon ==
  /\ status = "running" /\ cur = 0 /\ ev.k = "yield"
  /\ out' = Append(out, ev.v)
  /\ LET S == close_from([St EXCEPT !.ev = Closed], 1)
     IN /\ gens' = S.gens
        /\ ctxs' = S.ctxs
        /\ path' = S.path
        /\ ev' = S.ev
  /\ cur' = 0
  /\ status' = "closed"
  /\ steps' = steps + 1
  /\ UNCHANGED << T, fn, target, err, bvars >>

NextOperators ==
  \/ Next
  \/ infer_unaryop
  \/ infer_binop
  \/ infer_binop_operand
  \/ infer_binary_op
  \/ Abandon

SpecOperators == InitOperators /\ [][NextOperators]_vars

(***************************************************************************)
(* Lookups in units with base classes, deletions, loops and branches       *)
(***************************************************************************)
FilterUnits ==
  { ClassFirst, BasesLater, SelfBase, DelStraight, DelBranch, ForElse, ElseUse }

InitLookup ==
  /\ T \in Programs \cup FilterUnits
  /\ fn = Idle
  /\ target = 0
  /\ gens = << >>
  /\ ctxs = << >>
  /\ path = << >>
  /\ cur = 0
  /\ ev = [k |-> "none", v |-> [k |-> "None", n |-> 0, w |-> 0, f |-> 0], e |-> ""]
  /\ out = << >>
  /\ status = "idle"
  /\ steps = 0
  /\ err = ""
  /\ NoBuild

SpecLookup == InitLookup /\ [][CallFilterStmts \/ FilterAgain]_vars

(***************************************************************************)
(* Requests on star arguments, subscripts and attributes of several owners *)
(***************************************************************************)
SequenceUnits == { StarArgs, UnknownOperand, Subscripts, Owners }

InitSequences ==
  /\ T \in InferUnits \cup OperatorUnits \cup SequenceUnits
  /\ fn = Idle
  /\ target \in DOMAIN T
  /\ ctxs = << InferenceContext >>
  /\ gens = << infer(NodeV(target), 1, 0) >>
  /\ path = << >>
  /\ cur = 1
  /\ ev = EvRun
  /\ out = << >>
  /\ status = "running"
  /\ steps = 0
  /\ err = ""
  /\ NoBuild

infer_subscript == Running("infer_subscript") /\ Apply(do_infer_subscript(St))

NextSequences ==
  \/ NextOperators
  \/ infer_subscript

SpecSequences == InitSequences /\ [][NextSequences]_vars

(***************************************************************************)
(* Properties                                                              *)
(***************************************************************************)
Ended == status \in {"done", "failed"}
\* target is a reference to name
IsReference(name) == kind(target) = "Name" /\ T[target].name = name
\* target is the reference to name that forms a statement of its own
IsUse(name) == IsReference(name) /\ kind(parent(target)) = "Expr"
\* target is the binding occurrence of name in an assignment
IsBinding(name) ==
  kind(target) = "AssignName" /\ T[target].name = name /\ kind(parent(target)) = "Assign"
\* target is a call of method attr with npos positional and nkw keyword arguments
IsMethodCall(attr, npos, nkw) ==
  /\ kind(target) = "Call"
  /\ kind(field(target, "func")[1]) = "Attribute"
  /\ T[field(target, "func")[1]].name = attr
  /\ Len(call_args(target)) = npos
  /\ Len(call_nargs(target)) = nkw
\* every value received is an integer literal
OutConsts == \A i \in DOMAIN out : out[i].k = "node" /\ kind(out[i].n) = "Const"
OutVals == {T[out[i].n].val : i \in DOMAIN out}
\* the module-level bindings of name, in source order
Bindings(name) == locals(root(target), name)
\* the value expression of binding b
ValueOf(b) == T[field(parent(b), "value")[1]].val
\* some activation of the cycle guard found its entry on the path
GuardHit == \E g \in DOMAIN gens : gens[g].rule = "path_wrapper" /\ gens[g].pc = "hit"
ClassNamed(name) == CHOOSE n \in Nodes : kind(n) = "ClassDef" /\ T[n].name = name

\* C1: every inference request ends: the caller eventually either reaches the
\* end of the value sequence or receives an inference error; no request
\* recurses or loops without end (the generator bound is never exhausted).
C1_InferTerminates ==
  <>(status = "done" \/ (status = "failed" /\ IsInferenceError(err)))
\* the request for the binding of `x = x` has ended
C1_Witness == T = SelfRef /\ IsBinding("x") /\ Ended

C3_BothBranchesKept ==
  (T = IfElse /\ IsUse("x")) =>
    /\ lookup(target, "x").stmts = Bindings("x")
    /\ Len(Bindings("x")) = 2
    /\ status \notin {"failed", "overflow"}
    /\ status = "done" => Len(out) = 2 /\ OutConsts /\ OutVals = {1, 2}
C3_Witness == T = IfElse /\ IsUse("x") /\ status = "done" /\ Len(out) = 2

\* C4: with `x` bound twice in straight-line code, the lookup of the use
\* keeps only the later binding and its inference ends with the value 2 only.
C4_LaterBindingOnly ==
  (T = Straight /\ IsUse("x")) =>
    /\ Len(Bindings("x")) = 2
    /\ lookup(target, "x").stmts = << Bindings("x")[2] >>
    /\ ValueOf(Bindings("x")[2]) = 2
    /\ status \notin {"failed", "overflow"}
    /\ status = "done" => Len(out) = 1 /\ OutConsts /\ OutVals = {2}
C4_Witness == T = Straight /\ IsUse("x") /\ status = "done" /\ Len(out) = 1

\* C5: are_exclusive is symmetric: for every pair of nodes of a tree and
\* every exception-names argument, are_exclusive(a, b, names) equals
\* are_exclusive(b, a, names).
C5_ExclusiveSymmetric ==
  fn.op = "are_exclusive" => fn.excl = are_exclusive(fn.b, fn.a, fn.exc)
\* a body statement and a handler statement of one try/except, with names given
C5_Witness ==
  /\ fn.op = "are_exclusive"
  /\ fn.excl
  /\ fn.exc.given
  /\ \E t \in Nodes :
       /\ kind(t) = "TryExcept"
       /\ parent_of(t, fn.a) /\ parent_of(t, fn.b)
       /\ locate_child(t, children(t, fn.a))[1] = "body"
       /\ locate_child(t, children(t, fn.b))[1] = "handlers"

\* the field of try/except t through which t holds node n, "" when it does not
RECURSIVE branch_of(_, _)
branch_of(t, n) ==
  IF n = 0 THEN "" ELSE IF parent(n) = t THEN T[n].fld ELSE branch_of(t, parent(n))
\* a is in a handler and b is in the else block of one try/except
HandlerAndElse(a, b) ==
  \E t \in Nodes :
    kind(t) = "TryExcept" /\ branch_of(t, a) = "handlers" /\ branch_of(t, b) = "orelse"

\* C6: a statement in an except handler and a statement in the else block of
\* the same try/except are exclusive, in both argument orders, whatever the
\* handler catches and whether or not exception names are given.
C6_HandlerElseExclusive ==
  (fn.op = "are_exclusive"
     /\ (HandlerAndElse(fn.a, fn.b) \/ HandlerAndElse(fn.b, fn.a))) => fn.excl
\* the two `x` bindings of the ValueError handler and the else block, asked
\* with a name the handler does not catch
C6_Witness ==
  /\ T = TryElse
  /\ fn.op = "are_exclusive"
  /\ kind(fn.a) = "AssignName" /\ kind(fn.b) = "AssignName"
  /\ HandlerAndElse(fn.a, fn.b)
  /\ fn.exc = Exceptions({"KeyError"})
  /\ fn.excl

\* the keyword argument of call that names parameter name, 0 when there is none
KeywordFor(call, name) ==
  LET ks == {k \in Nodes : parent(k) = call /\ kind(k) = "Keyword" /\ T[k].name = name}
  IN IF ks = {} THEN 0 ELSE CHOOSE k \in ks : TRUE

\* C7: an explicit keyword argument naming the parameter wins: whenever
\* infer_argument binds a parameter that the call names in a keyword, it
\* infers that keyword's value, whatever positional arguments and default
\* there are; `A().m(y=10)` and `A().m(1, 3, y=10)` end with the value 10.
C7_KeywordWins ==
  /\ \A g \in DOMAIN gens :
       (gens[g].rule = "infer_argument" /\ gens[g].pc # "start"
          /\ KeywordFor(gens[g].v.n, gens[g].s) # 0) =>
         /\ gens[g].pc = "fwd"
         /\ gens[gens[g].sub].v =
              NodeV(field(KeywordFor(gens[g].v.n, gens[g].s), "value")[1])
  /\ (T = Method /\ kind(target) = "Call" /\ KeywordFor(target, "y") # 0) =>
       /\ status \notin {"failed", "overflow"}
       /\ status = "done" => Len(out) = 1 /\ OutConsts /\ OutVals = {10}
\* the call with conflicting positional arguments has ended
C7_Witness ==
  T = Method /\ IsMethodCall("m", 2, 1) /\ status = "done" /\ OutVals = {10}

\* C8 as stated: for `m(self, y=5)`, `A().m(10)` binds `y` to the positional
\* argument 10 and `A().m()` binds it to the default 5.
C8_PositionalThenDefault ==
  (T = Method /\ status = "done") =>
    /\ IsMethodCall("m", 1, 0) => Len(out) = 1 /\ OutConsts /\ OutVals = {10}
    /\ IsMethodCall("m", 0, 0) => Len(out) = 1 /\ OutConsts /\ OutVals = {5}

\* C9 as stated: for `s(self): return self`, the result of `A().s()` is
\* exactly one Instance of class A: not the class, not an instance wrapped twice.
C9_ReceiverInstance ==
  (T = Method /\ status = "done" /\ IsMethodCall("s", 0, 0)) =>
    out = << Instance(NodeV(ClassNamed("A"))) >>

\* C10 as stated: filter_stmts applied to its own result, with the same
\* lookup node, frame and offset, returns that result unchanged.
C10_FilterIdempotent == fn.op = "filter_again" => fn.out = fn.stmts

\* generator cur is a cycle guard whose rule is running
GuardActive == Running("path_wrapper") /\ gens[cur].pc = "iter"
\* the entry a cycle guard computes for its node and context
GuardEntry(g) == << gens[g].v, signature(ctxs[gens[g].ctx]) >>

\* C11: a cycle guard that does not find its entry on context.path appends
\* it; when the guarded rule's sequence is exhausted or fails, the step that
\* hands the exhaustion or the error to the guard's consumer leaves
\* context.path exactly as the guard found it on entry.
C11_PathReleased ==
  [][ /\ (Running("path_wrapper") /\ gens[cur].pc = "start"
            /\ ~InPath(path, GuardEntry(cur)) /\ status' = "running") =>
           path' = Append(path, GuardEntry(cur))
      /\ (GuardActive /\ ev.k \in {"stop", "raise"} /\ status' = "running") =>
           /\ path' = gens[cur].p0
           /\ cur' = gens[cur].par
           /\ ev' = ev ]_vars
\* a cycle guard entered with two entries on the path has just handed an
\* error to its consumer, and the path is again what the guard found
C11_Witness ==
  /\ status = "running"
  /\ cur # 0
  /\ ev.k = "raise"
  /\ gens[cur].sub # 0
  /\ LET g == gens[cur].sub
     IN /\ gens[g].rule = "path_wrapper"
        /\ gens[g].pc = "iter"
        /\ gens[g].par = cur
        /\ Len(gens[g].p0) >= 2
        /\ path = gens[g].p0

\* generator cur is infer_argument binding a parameter that has no keyword,
\* is not the receiver, has no positional argument and no default
NothingBinds ==
  /\ Running("infer_argument")
  /\ gens[cur].pc = "start"
  /\ argument_source(gens[cur].v.n, gens[cur].frm, gens[cur].s, ctxs[gens[cur].ctx]).from
       = "none"

\* C15 as stated: when nothing binds the parameter and it has no declared
\* default, infer_argument fails with NoDefault.
C15_FailsWithNoDefault ==
  [][ (NothingBinds /\ status' = "running") =>
        (ev'.k = "raise" /\ ev'.e = "NoDefault") ]_vars

\* every sequence of map old is the beginning of its sequence in map new
Extends(old, new) ==
  \A k \in DOMAIN old :
    Len(new[k]) >= Len(old[k]) /\ SubSeq(new[k], 1, Len(old[k])) = old[k]
\* no node is recorded twice under one owner and name
NoRepeats(map) ==
  \A k \in DOMAIN map : \A i, j \in DOMAIN map[k] : map[k][i] = map[k][j] => i = j

\* C17 as stated: in every step of the post-build pass the two attribute
\* maps only grow at the end: a binding is added after all the bindings
\* already recorded under its name, none is removed or moved, and no node
\* is recorded twice under one name.
C17_AppendOnly ==
  [][ /\ Extends(instance_attrs, instance_attrs')
      /\ Extends(external_attrs, external_attrs')
      /\ NoRepeats(instance_attrs')
      /\ NoRepeats(external_attrs') ]_vars

\* C16: a unit is in the unit cache before any inference runs on its tree
\* (attribute pass, transforms, recursive object building), and no unit's
\* tree is ever built a second time: a resolution of a unit whose build is
\* in progress finds the registered node.
C16_RegisteredBeforeInference ==
  /\ \A i \in DOMAIN calls : Now(calls[i]) \in InferenceSteps => calls[i].unit \in cache
  /\ \A u \in DOMAIN built : built[u] <= 1
\* an import cycle: while the attribute pass of `a` is building `b`, the
\* inference on `b` has resolved `a`, whose build is still in progress
C16_Witness ==
  /\ Len(calls) = 2
  /\ calls[1].unit = "a" /\ Now(calls[1]) = "delayed_assignments"
  /\ calls[2].unit = "b" /\ Now(calls[2]) \in InferenceSteps
  /\ "a" \in units["b"].imports
  /\ "a" \notin calls[2].imports
  /\ built["a"] = 1

\* the rules the claim names: their top-level request is one of these
NamedRules ==
  { "infer_callfunc", "infer_getattr", "infer_unaryop", "infer_binop", "infer_name" }

\* C12: a request on a call, attribute access, unary operation, binary
\* operation or name never ends as an empty success: when its sequence is
\* exhausted, the caller has taken at least one value
C12_NoEmptySuccess ==
  (status = "done" /\ infer_rule(NodeV(target)) \in NamedRules) => out # << >>

\* C13: the only failures that leave a top-level infer call are
\* InferenceError, UnresolvableName, NotFoundError and NoDefault
C13_OnlyInferenceFailures ==
  status = "failed" =>
    err \in { "InferenceError", "UnresolvableName", "NotFoundError", "NoDefault" }

\* C14: when the consumer drops the sequence after taking a value, closing
\* the suspended generators produces no further value, leaves every context
\* as it is and leaves every failures list of a binary operation as it is
C14_AbandonIsSilent ==
  [][ (status = "running" /\ status' = "closed") =>
        /\ ev'.k = "closed"
        /\ ctxs' = ctxs
        /\ \A g \in DOMAIN gens :
             gens[g].rule = "infer_binop" => gens'[g].lst = gens[g].lst ]_vars


\* the first parent of b, climbing from b, that is also a parent of a
\* (0 when the two nodes have no common parent)
RECURSIVE first_common(_, _)
first_common(node, a) ==
  IF node = 0 THEN 0
  ELSE IF parent_of(node, a) THEN node
  ELSE first_common(parent(node), a)
CommonParent(a, b) == first_common(parent(b), a)
\* the field of the common parent through which it holds n
BranchAt(t, n) == T[children(t, n)].fld
\* the names a handler's type expression mentions
CaughtNames(h) ==
  IF field(h, "type") = << >> THEN {}
  ELSE LET t == field(h, "type")[1]
       IN {T[n].name : n \in {m \in Nodes : kind(m) = "Name" /\ (m = t \/ parent_of(t, m))}}
\* handler h catches one of the given names; every handler does when no
\* names are given, and a bare handler catches every name
Catches(h, exc) ==
  \/ ~exc.given
  \/ field(h, "type") = << >>
  \/ CaughtNames(h) \cap exc.names # {}
\* the call of are_exclusive met try/except or conditional t as common parent
ExclusiveAt(knd) ==
  /\ fn.op = "are_exclusive"
  /\ CommonParent(fn.a, fn.b) # 0
  /\ kind(CommonParent(fn.a, fn.b)) = knd

\* C18: at a try/except common parent, a node of the try body and a node of
\* a handler are exclusive exactly when that handler catches one of the given
\* exception names (always when no names are given or the handler is bare);
\* when names are given and the handler names none of them they are not.
C18_BodyHandlerCatches ==
  ExclusiveAt("TryExcept") =>
    LET t == CommonParent(fn.a, fn.b)
    IN /\ (BranchAt(t, fn.a) = "body" /\ BranchAt(t, fn.b) = "handlers") =>
            (fn.excl <=> Catches(children(t, fn.b), fn.exc))
       /\ (BranchAt(t, fn.a) = "handlers" /\ BranchAt(t, fn.b) = "body") =>
            (fn.excl <=> Catches(children(t, fn.a), fn.exc))
\* the try body against the (KeyError, TypeError) handler, asked with
\* ValueError only: not exclusive
C18_Witness ==
  /\ T = Branches
  /\ ExclusiveAt("TryExcept")
  /\ BranchAt(CommonParent(fn.a, fn.b), fn.a) = "body"
  /\ BranchAt(CommonParent(fn.a, fn.b), fn.b) = "handlers"
  /\ CaughtNames(children(CommonParent(fn.a, fn.b), fn.b)) = {"KeyError", "TypeError"}
  /\ fn.exc = Exceptions({"ValueError"})
  /\ ~fn.excl

\* C19: at a try/except common parent, two nodes held by two distinct
\* handlers are exclusive and two nodes held by the same handler are not,
\* whatever exception names are given; a handler's type expression and its
\* body, whose common parent is the handler itself, are not exclusive either.
C19_HandlersExclusive ==
  /\ ExclusiveAt("TryExcept") =>
       LET t == CommonParent(fn.a, fn.b)
       IN (BranchAt(t, fn.a) = "handlers" /\ BranchAt(t, fn.b) = "handlers") =>
            (fn.excl <=> children(t, fn.a) # children(t, fn.b))
  /\ ExclusiveAt("ExceptHandler") => ~fn.excl
\* bindings of two distinct handlers, asked with a name neither handler catches
C19_Witness ==
  /\ T = Branches
  /\ ExclusiveAt("TryExcept")
  /\ kind(fn.a) = "AssignName" /\ kind(fn.b) = "AssignName"
  /\ BranchAt(CommonParent(fn.a, fn.b), fn.a) = "handlers"
  /\ BranchAt(CommonParent(fn.a, fn.b), fn.b) = "handlers"
  /\ children(CommonParent(fn.a, fn.b), fn.a) # children(CommonParent(fn.a, fn.b), fn.b)
  /\ fn.exc = Exceptions({"KeyError"})
  /\ CaughtNames(children(CommonParent(fn.a, fn.b), fn.a)) = {"ValueError"}
  /\ CaughtNames(children(CommonParent(fn.a, fn.b), fn.b)) = {}
  /\ fn.excl

\* C20 as stated: at a conditional common parent, are_exclusive is true
\* exactly when no exception names are given and the two nodes descend
\* through the two different branches, body and else, of that conditional.
C20_ConditionalBranches ==
  ExclusiveAt("If") =>
    LET t == CommonParent(fn.a, fn.b)
    IN fn.excl <=> /\ ~fn.exc.given
                   /\ {BranchAt(t, fn.a), BranchAt(t, fn.b)} = {"body", "orelse"}

(***************************************************************************)
(* Claims about the statement filter                                       *)
(***************************************************************************)
\* a call of the filter in the lookup's own frame: the candidates are filtered
Filtering ==
  fn.op = "filter_stmts" /\ filter_frame(fn.a, fn.offset) = fn.frm /\ fn.a # fn.frm
Elems(s) == { s[i] : i \in DOMAIN s }
Without(s, c) == SelectSeq(s, LAMBDA x : x # c)
StartLine(n) == T[statement(n)].line

\* C21: with offset -1 the filter returns only candidates whose statement
\* starts strictly before the first line of the class statement the lookup
\* node is a base of
C21_OnlyBeforeClass ==
  (Filtering /\ fn.offset = -1) =>
    \A c \in Elems(fn.out) : StartLine(c) < StartLine(fn.a)

\* candidate d can be reached on the straight-line path to the lookup node:
\* the block holding d's statement also holds the lookup node
OnPathTo(d, node) == parent_of(parent(statement(d)), node)

\* C22: a deletion is never in the result; after `x = 1; del x; x` the result
\* is empty; a deletion in a block the lookup node is not in clears nothing:
\* the result is the one the candidates without the deletion give
C22_DeletionClearsStraightLine ==
  Filtering =>
    /\ \A c \in Elems(fn.out) : kind(c) # "DelName"
    /\ (T = DelStraight /\ kind(fn.a) = "Name") => fn.out = << >>
    /\ \A d \in Elems(fn.stmts) :
         (kind(d) = "DelName" /\ ~OnPathTo(d, fn.a)) =>
           fn.out = filter_stmts(fn.a, Without(fn.stmts, d), fn.frm, fn.offset)

\* class statement c lists node among its bases
ListsAsBase(c, node) ==
  kind(c) = "ClassDef" /\ parent(node) = c /\ T[node].fld = "bases"
\* the candidates of s that start on or before the reference line
UpToReference(s) ==
  SelectSeq(s, LAMBDA x : StartLine(x) <= StartLine(fn.a) + fn.offset)

\* C23: a candidate class that lists the lookup node among its bases is not
\* in the result, and the candidates up to the reference line are filtered
\* as the candidates without that class are
C23_DerivedClassDiscarded ==
  Filtering =>
    \A c \in Elems(fn.stmts) :
      ListsAsBase(c, fn.a) =>
        /\ c \notin Elems(fn.out)
        /\ UpToReference(fn.out) =
             UpToReference(filter_stmts(fn.a, Without(fn.stmts, c), fn.frm, fn.offset))
\* the class on line 1 derives from its own name: only has_base keeps it out
C23_Witness ==
  /\ T = SelfBase /\ Filtering /\ ListsAsBase(fn.stmts[1], fn.a)
  /\ Len(fn.stmts) = 2 /\ fn.out = << >>

\* node stands in the body of loop
InLoopBody(loop, node) == parent_of(loop, node) /\ BranchAt(loop, node) = "body"
\* candidate e comes before candidate c in the candidates of the call
Earlier(e, c) == index(fn.stmts, e) < index(fn.stmts, c)

\* C24: a loop binding hides earlier candidates only for a lookup in the
\* loop's body: for every other lookup node, each earlier candidate that the
\* candidates without the loop binding give is in the result
C24_OptionalBindingKeepsEarlier ==
  Filtering =>
    \A c \in Elems(fn.stmts) :
      (optional_assign(assign_type(c)) /\ ~InLoopBody(assign_type(c), fn.a)) =>
        \A e \in Elems(filter_stmts(fn.a, Without(fn.stmts, c), fn.frm, fn.offset)) :
          Earlier(e, c) => e \in Elems(fn.out)

\* C25: a candidate that is exclusive with the lookup node is not in the
\* result and removes nothing from it: the result is the one the candidates
\* without it give; for `x = 0` before `if c: x = 1 else: x` the lookup in
\* the else branch gives a non-empty result
C25_ExclusiveClearsNothing ==
  Filtering =>
    /\ \A c \in Elems(fn.stmts) :
         (kind(c) = "AssignName" /\ are_exclusive(fn.a, c, NoExceptions)) =>
           fn.out = filter_stmts(fn.a, Without(fn.stmts, c), fn.frm, fn.offset)
    /\ (T = ElseUse /\ kind(fn.a) = "Name" /\ T[fn.a].name = "x") => fn.out # << >>

(***************************************************************************)
(* Claims about star arguments, operators, subscripts and attributes       *)
(***************************************************************************)
\* infer_argument g has inferred every value of the star argument
StarDone(g) ==
  /\ gens[g].rule = "infer_argument"
  /\ gens[g].c2 > 0
  /\ (gens[g].pc # "star" \/ gens[g].done)

\* C26: when a parameter is bound from a star argument, every inferred value
\* of the argument contributes one sequence to the binding (the inference of
\* its element, or Unknown): no value is dropped and the binding does not
\* end in an error
C26_EachCandidateContributes ==
  \A g \in DOMAIN gens :
    StarDone(g) => (Len(gens[g].lst) = gens[g].c2 /\ gens[g].pc # "star")

\* C27: a left value that is Unknown gives one Unknown and no operator
\* resolution is attempted on it (its _infer_binop never goes past the yield
\* of line 359), and every request on a binary operation that ends gives at
\* least one value: each pairing contributes its values or one Unknown
C27_PairingsIndependent ==
  /\ \A g \in DOMAIN gens :
       (gens[g].rule = "_infer_binop" /\ gens[g].v = YES) =>
         gens[g].pc \in {"start", "yield359"}
  /\ (kind(target) = "BinOp" /\ status \in {"done", "failed"}) =>
       (status = "done" /\ out # << >>)

\* subscript n is multi-dimensional, or its constant index is out of range
\* or of the wrong type for the display or constant it indexes
NotExtractable(n) ==
  LET subs == field(n, "subs")
  IN \/ Len(subs) # 1
     \/ /\ kind(subs[1]) = "Const"
        /\ getitem(NodeV(field(n, "expr")[1]), NodeV(subs[1])).r
             \in {"IndexError", "TypeError"}

\* C28: the inference of a subscript that is multi-dimensional, or whose
\* index is out of range or of the wrong type, does not fail: it ends with
\* the single value Unknown
C28_SubscriptDegradesToUnknown ==
  (kind(target) = "Subscript" /\ NotExtractable(target) /\ status \in {"done", "failed"})
    => (status = "done" /\ out = << YES >>)

\* a request on an attribute access has ended
GetattrEnded == kind(target) = "Attribute" /\ status \in {"done", "failed"}

\* the running generator is an infer_getattr waiting at position pc
GetattrAt(pc) ==
  /\ status = "running" /\ cur # 0
  /\ gens[cur].rule = "infer_getattr" /\ gens[cur].pc = pc

\* the attribute resolution of the current owner has just failed
OwnerFailed ==
  /\ GetattrAt("attr") /\ ev.k = "raise"
  /\ ev.e \in {"NotFoundError", "InferenceError", "AttributeError"}

\* a failed owner is skipped: the access goes on and asks for the next owner
OwnerSkipped ==
  (OwnerFailed /\ status' = "running") =>
    /\ cur' = gens[cur].sub2 /\ ev'.k = "run"
    /\ ~gens'[cur].done

\* an Unknown owner contributes Unknown
UnknownOwnerContributes ==
  (GetattrAt("owner") /\ ev.k = "yield" /\ ev.v = YES /\ status' = "running") =>
    /\ cur' = gens[cur].par /\ ev'.k = "yield" /\ ev'.v = YES

\* C29: the owners of an attribute access are handled one by one: an owner
\* whose resolution fails is skipped and the next owner is asked, an Unknown
\* owner contributes Unknown, and the access fails with InferenceError only
\* when no value was produced (and ends normally only when one was)
C29_OwnersIndependent ==
  /\ [](GetattrEnded => /\ (status = "failed" /\ err = "InferenceError") => out = << >>
                        /\ status = "done" => out # << >>)
  /\ [][OwnerSkipped /\ UnknownOwnerContributes]_vars

\* an access has ended with values although an earlier owner had no such
\* attribute: the resolution of a later owner was still asked for
C29_Witness ==
  /\ GetattrEnded /\ status = "done" /\ out # << >>
  /\ \E g, h \in DOMAIN gens :
       /\ g < h /\ gens[g].rule = "igetattr" /\ gens[h].rule = "igetattr"
       /\ gens[g].par = gens[h].par
       /\ attr_class(gens[g].v) # 0
       /\ locals(attr_class(gens[g].v), gens[g].s) = << >>
       /\ locals(attr_class(gens[h].v), gens[h].s) # << >>

\* C30: once the inference of an attribute access has ended, by exhaustion
\* or by an error, the bound receiver of the caller's context is None
C30_ReceiverRestored ==
  (kind(target) = "Attribute" /\ status \in {"done", "failed"}) =>
    ctxs[1].boundnode = NoneV


=============================================================================
